---- MODULE Spec2Model ----
(***************************************************************************)
(* Electric-chair game: the rule engine (src/src/utils/gameLogic.ts) and   *)
(* the 32-bit state codec (src/src/utils/stateHash.ts).                    *)
(*                                                                         *)
(* A JavaScript number n that holds a 32-bit quantity is the record        *)
(* [hi |-> h, lo |-> l] with n = h * 2^16 + l and 0 <= l < 2^16, so that   *)
(* the signed result of the bitwise operators (h in -2^15 .. 2^15 - 1) and *)
(* the unsigned number read back from a hex string (h in 0 .. 2^16 - 1)    *)
(* are different values, as they are in the program.                       *)
(***************************************************************************)
EXTENDS Integers, Sequences, FiniteSets, TLC

\* ---------------------------------------------------------------------
\* Program constants
\* ---------------------------------------------------------------------
MAX_SCORE == 40
MAX_ELECTRIC_COUNT == 3
MAX_TURNS == 16
CHAIR_COUNT == 12

PLAYER1 == 1
PLAYER2 == 2

\* ---------------------------------------------------------------------
\* Bounds of the exploration
\* ---------------------------------------------------------------------
\* the chair-selector picks among the AttackerWidth highest chairs present
AttackerWidth == 1
\* the electric-setter picks among the DefenderWidth highest chairs present
DefenderWidth == 2
\* unchecked callers pass choices up to OutOfRange below 1 or above 12
OutOfRange == 1
\* an earlier run of the hash-generation script is taken to have listed up to
\* SliceSize states of a turn
SliceSize == 4
\* one run of the hash-generation script handles at most MaxProcessed hashes
\* before it is stopped
MaxProcessed == 60
\* the analysis script finds the lists of at most ListedTurns turns that hold
\* states
ListedTurns == 2
\* chunk files hold SmallChunk entries where the exploration shortens them
SmallChunk == 3
\* the analysis script is asked for 1..MaxNum states, or for the default
MaxNum == 3
\* the calls a caller makes on the storage it holds
MaxCalls == 3

\* the calls a caller makes on the calculator it holds
MaxSolves == 3
\* the times the hash-generation script is killed and started again
MaxKills == 1

VARIABLES
  gameState,   \* the GameState the caller holds
  args,        \* arguments of the last processTurn call, as they were before it
  input,       \* the GameState argument object as that call left it
  result,      \* TurnResult of the last processTurn call
  again,       \* TurnResult of calling processTurn once more on the same argument
  threw,       \* whether the last processTurn call raised an error
  stateHashes, \* the directory ./state-hashes: meta.json and chunk files per turn
  enumerator,  \* the hash-generation script: its position and its locals
  progress,    \* ./analysis-results/progress.json
  analysisResults, \* ./analysis-results: index.json and chunk files per turn
  driver,      \* the analysis script: its position and what the process holds
  storage,     \* a ChunkedAnalysisStorage a caller holds, and what it was asked
  calculation, \* a process with its calculator, and the last call on the calculator
  app          \* the App component: its React state and its pending CPU turns

game == <<gameState, args, input, result, again, threw, app>>

hashing == <<stateHashes, enumerator>>

units == <<storage, calculation>>

analysis == <<progress, analysisResults, driver, storage, calculation>>

vars == <<gameState, args, input, result, again, threw, stateHashes, enumerator,
          progress, analysisResults, driver, storage, calculation, app>>

\* no call has been made yet
None == [none |-> TRUE]

\* the JavaScript value undefined
Undefined == "undefined"

\* ---------------------------------------------------------------------
\* types/game: INITIAL_GAME_STATE
\* ---------------------------------------------------------------------
INITIAL_GAME_STATE ==
  [ currentTurn |-> 0,
    chairsRemaining |-> [i \in 1..CHAIR_COUNT |-> TRUE],
    player1Score |-> 0,
    player2Score |-> 0,
    player1ElectricCount |-> 0,
    player2ElectricCount |-> 0,
    gameStatus |-> "IN_PROGRESS",
    winner |-> Undefined ]

\* ---------------------------------------------------------------------
\* gameLogic.ts
\* ---------------------------------------------------------------------
\* the roles with the parity exchanged
getCurrentAttackerOdd(turn) == IF turn % 2 = 0 THEN PLAYER2 ELSE PLAYER1

getCurrentAttacker(turn) == IF turn % 2 = 0 THEN PLAYER1 ELSE PLAYER2

getCurrentDefender(turn) == IF turn % 2 = 0 THEN PLAYER2 ELSE PLAYER1

\* chair numbers (index + 1) whose array element is true
getAvailableChairs(gs) ==
  {c \in 1..Len(gs.chairsRemaining) : gs.chairsRemaining[c]}

\* gameState.chairsRemaining.filter(chair => chair).length
RemainingChairs(chairsRemaining) ==
  Cardinality({c \in 1..Len(chairsRemaining) : chairsRemaining[c]})

\* a player loses only past the third shock
ElectricLimitReachedLate(electricCount) == electricCount > MAX_ELECTRIC_COUNT

\* electricCount === MAX_ELECTRIC_COUNT
ElectricLimitReached(electricCount) == electricCount = MAX_ELECTRIC_COUNT

\* a player wins only on exactly 40 points
ScoreLimitReachedExact(score) == score = MAX_SCORE

\* score >= MAX_SCORE
ScoreLimitReached(score) == score >= MAX_SCORE

\* checkGameEnd without the rule of the last chair
checkGameEndOnTurnOnly(gs) ==
  IF ElectricLimitReached(gs.player1ElectricCount) THEN "PLAYER2_WIN"
  ELSE IF ElectricLimitReached(gs.player2ElectricCount) THEN "PLAYER1_WIN"
  ELSE IF ScoreLimitReached(gs.player1Score) THEN "PLAYER1_WIN"
  ELSE IF ScoreLimitReached(gs.player2Score) THEN "PLAYER2_WIN"
  ELSE IF gs.currentTurn >= MAX_TURNS - 1
       THEN IF gs.player1Score > gs.player2Score THEN "PLAYER1_WIN"
            ELSE IF gs.player2Score > gs.player1Score THEN "PLAYER2_WIN"
            ELSE "DRAW"
  ELSE "IN_PROGRESS"

checkGameEnd(gs) ==
  IF ElectricLimitReached(gs.player1ElectricCount) THEN "PLAYER2_WIN"
  ELSE IF ElectricLimitReached(gs.player2ElectricCount) THEN "PLAYER1_WIN"
  ELSE IF ScoreLimitReached(gs.player1Score) THEN "PLAYER1_WIN"
  ELSE IF ScoreLimitReached(gs.player2Score) THEN "PLAYER2_WIN"
  ELSE IF RemainingChairs(gs.chairsRemaining) = 1
          \/ gs.currentTurn >= MAX_TURNS - 1
       THEN IF gs.player1Score > gs.player2Score THEN "PLAYER1_WIN"
            ELSE IF gs.player2Score > gs.player1Score THEN "PLAYER2_WIN"
            ELSE "DRAW"
  ELSE "IN_PROGRESS"

getWinner(gs) ==
  IF gs.gameStatus = "PLAYER1_WIN" THEN PLAYER1
  ELSE IF gs.gameStatus = "PLAYER2_WIN" THEN PLAYER2
  ELSE Undefined

\* arr[chair] = false: the index is not shifted to the 0-based array
AssignFalseUnshifted(arr, chair) ==
  IF chair + 1 \in 1..Len(arr) THEN [arr EXCEPT ![chair + 1] = FALSE]
  ELSE [i \in 1..(chair + 1) |-> IF i <= Len(arr) THEN arr[i] ELSE FALSE]

\* arr[chair - 1] = false on a JavaScript array: an index inside the array
\* overwrites the element, an index past the end grows the array (the holes
\* read as falsy), a negative index sets a property that is no element.
AssignFalse(arr, chair) ==
  IF chair \in 1..Len(arr) THEN [arr EXCEPT ![chair] = FALSE]
  ELSE IF chair > Len(arr) THEN [i \in 1..chair |-> IF i <= Len(arr) THEN arr[i] ELSE FALSE]
  ELSE arr

\* The array object that newState.chairsRemaining refers to: "fresh" is the
\* array allocated by [...gameState.chairsRemaining], "input" would be the
\* array of the argument itself.
NewStateArrayShared == "input"

NewStateArray == "fresh"

\* The two array objects after the body of processTurn ran.
TurnArrays(gs, attackerChoice, defenderChoice) ==
  LET before == [input |-> gs.chairsRemaining, fresh |-> gs.chairsRemaining]
  IN IF attackerChoice = defenderChoice
       THEN before
       ELSE [before EXCEPT ![NewStateArray] = AssignFalse(@, attackerChoice)]

\* matched branch without the reset of the score
ApplyElectricKeepScore(newState, attacker) ==
  IF attacker = PLAYER1
    THEN [newState EXCEPT !.player1ElectricCount = @ + 1]
    ELSE [newState EXCEPT !.player2ElectricCount = @ + 1]

\* matched branch: the attacker's score is reset and its count incremented
ApplyElectric(newState, attacker) ==
  IF attacker = PLAYER1
    THEN [newState EXCEPT !.player1Score = 0, !.player1ElectricCount = @ + 1]
    ELSE [newState EXCEPT !.player2Score = 0, !.player2ElectricCount = @ + 1]

\* unmatched branch: the chosen chair is removed and its number is scored
ApplyScore(newState, attacker, chairs, scoreGained) ==
  IF attacker = PLAYER1
    THEN [newState EXCEPT !.chairsRemaining = chairs,
                          !.player1Score = @ + scoreGained]
    ELSE [newState EXCEPT !.chairsRemaining = chairs,
                          !.player2Score = @ + scoreGained]

\* the turn advances on every call
AdvanceTurnAlways(newState) == [newState EXCEPT !.currentTurn = @ + 1]

\* the turn advances only when the game goes on
AdvanceTurn(newState) ==
  IF newState.gameStatus = "IN_PROGRESS"
    THEN [newState EXCEPT !.currentTurn = @ + 1]
    ELSE newState

processTurn(gs, attackerChoice, defenderChoice) ==
  LET attacker == getCurrentAttacker(gs.currentTurn)
      defender == getCurrentDefender(gs.currentTurn)
      matched  == attackerChoice = defenderChoice
      arrays   == TurnArrays(gs, attackerChoice, defenderChoice)
      scoreGained == IF matched THEN 0 ELSE attackerChoice
      updated ==
        IF matched
          THEN ApplyElectric(gs, attacker)
          ELSE ApplyScore(gs, attacker, arrays[NewStateArray], scoreGained)
      withStatus == [updated EXCEPT !.gameStatus = checkGameEnd(updated)]
      withWinner == [withStatus EXCEPT !.winner = getWinner(withStatus)]
  IN [ attacker |-> attacker,
       defender |-> defender,
       attackerChoice |-> attackerChoice,
       defenderChoice |-> defenderChoice,
       matched |-> matched,
       scoreGained |-> scoreGained,
       electricReceived |-> matched,
       chairRemoved |-> IF matched THEN Undefined ELSE attackerChoice,
       newGameState |-> AdvanceTurn(withWinner) ]

\* The argument object as processTurn leaves it.
ArgumentAfter(gs, attackerChoice, defenderChoice) ==
  [gs EXCEPT !.chairsRemaining =
     TurnArrays(gs, attackerChoice, defenderChoice).input]

\* processTurn has no validation and no throw statement.
processTurnThrows(gs, attackerChoice, defenderChoice) == FALSE

\* ---------------------------------------------------------------------
\* JavaScript 32-bit arithmetic on the [hi, lo] representation
\* ---------------------------------------------------------------------
\* the weight of hi
Half == 2 ^ 16

\* operands of the bitwise operators are converted to signed 32 bits
ToInt32(n) ==
  LET h == n.hi % Half
  IN [hi |-> IF h >= Half \div 2 THEN h - Half ELSE h, lo |-> n.lo]

\* hash >>> 0
ToUint32(n) == [hi |-> n.hi % Half, lo |-> n.lo]

\* (hash >> shift) & mask for a field that lies wholly in one half;
\* mask is 2^w - 1
ShiftMask(hash, shift, mask) ==
  IF shift >= 16
    THEN (ToInt32(hash).hi \div (2 ^ (shift - 16))) % (mask + 1)
    ELSE (hash.lo \div (2 ^ shift)) % (mask + 1)

\* hexadecimal digits of a non-negative integer below 2^16, most significant
\* first, without leading zeros (the empty sequence for 0)
RECURSIVE Digits(_)
Digits(k) == IF k = 0 THEN <<>> ELSE Append(Digits(k \div 16), k % 16)

\* the same, padded with leading zeros to four digits
FourDigits(k) ==
  <<(k \div 4096) % 16, (k \div 256) % 16, (k \div 16) % 16, k % 16>>

\* (hash >>> 0).toString(16): the digits of the unsigned value, "0" for zero
HexText(hash) ==
  LET u == ToUint32(hash)
  IN IF u.hi > 0 THEN Digits(u.hi) \o FourDigits(u.lo)
     ELSE IF u.lo > 0 THEN Digits(u.lo)
     ELSE <<0>>

\* parseInt(text, 16): n = n * 16 + digit over the digits, a non-negative number
RECURSIVE ParseHex(_)
ParseHex(text) ==
  IF text = <<>> THEN [hi |-> 0, lo |-> 0]
  ELSE LET n == ParseHex(SubSeq(text, 1, Len(text) - 1))
           low == n.lo * 16 + text[Len(text)]
       IN [hi |-> n.hi * 16 + low \div Half, lo |-> low % Half]

\* ---------------------------------------------------------------------
\* stateHash.ts
\* ---------------------------------------------------------------------
\* chairBits |= (1 << i) for every i in 0..11 with chairsRemaining[i] truthy
RECURSIVE ChairBits(_, _)
ChairBits(chairsRemaining, i) ==
  IF i >= 12 THEN 0
  ELSE (IF i + 1 <= Len(chairsRemaining) /\ chairsRemaining[i + 1]
          THEN 2 ^ i ELSE 0)
       + ChairBits(chairsRemaining, i + 1)

\* width of the score field: player1Score & 0x3F
ScoreMaskNarrow == 2 ^ 5 - 1

ScoreMask == 63

encodeGameStateHash(state) ==
  LET chairBits   == ChairBits(state.chairsRemaining, 0)
      turnBits    == (state.currentTurn % 16) * 4096        \* << 28, in hi
      chairsBits  == chairBits % 4096                       \* << 16, in hi
      p1ScoreBits == (state.player1Score % (ScoreMask + 1)) * 1024
      p2ScoreBits == (state.player2Score % (ScoreMask + 1)) * 16
      p1ElecBits  == (state.player1ElectricCount % 4) * 4
      p2ElecBits  == state.player2ElectricCount % 4
  IN ToInt32([hi |-> turnBits + chairsBits,
              lo |-> p1ScoreBits + p2ScoreBits + p1ElecBits + p2ElecBits])

\* encodeGameStateHash has no throw: every field is masked to its width and
\* the call returns for every state
encodeGameStateHashThrows(state) == FALSE

decodeGameStateHash(hash) ==
  [ turn |-> ShiftMask(hash, 28, 15),
    chairs |-> ShiftMask(hash, 16, 4095),
    player1Score |-> ShiftMask(hash, 10, 63),
    player2Score |-> ShiftMask(hash, 4, 63),
    player1Electric |-> ShiftMask(hash, 2, 3),
    player2Electric |-> ShiftMask(hash, 0, 3) ]

\* getGameStatusFromHash that ends the game one turn earlier
getGameStatusFromHashEarly(hash) ==
  LET remainingChairs ==
        Cardinality({i \in 0..11 : (hash.chairs \div (2 ^ i)) % 2 = 1})
  IN IF hash.player1Electric = 3 THEN "PLAYER2_WIN"
     ELSE IF hash.player2Electric = 3 THEN "PLAYER1_WIN"
     ELSE IF hash.player1Score >= 40 THEN "PLAYER1_WIN"
     ELSE IF hash.player2Score >= 40 THEN "PLAYER2_WIN"
     ELSE IF remainingChairs = 1 \/ hash.turn >= 16 - 2
          THEN IF hash.player1Score > hash.player2Score THEN "PLAYER1_WIN"
               ELSE IF hash.player2Score > hash.player1Score THEN "PLAYER2_WIN"
               ELSE "DRAW"
     ELSE "IN_PROGRESS"

getGameStatusFromHash(hash) ==
  LET remainingChairs ==
        Cardinality({i \in 0..11 : (hash.chairs \div (2 ^ i)) % 2 = 1})
  IN IF hash.player1Electric = 3 THEN "PLAYER2_WIN"
     ELSE IF hash.player2Electric = 3 THEN "PLAYER1_WIN"
     ELSE IF hash.player1Score >= 40 THEN "PLAYER1_WIN"
     ELSE IF hash.player2Score >= 40 THEN "PLAYER2_WIN"
     ELSE IF remainingChairs = 1 \/ hash.turn >= 16 - 1
          THEN IF hash.player1Score > hash.player2Score THEN "PLAYER1_WIN"
               ELSE IF hash.player2Score > hash.player1Score THEN "PLAYER2_WIN"
               ELSE "DRAW"
     ELSE "IN_PROGRESS"

hashToGameState(hash) ==
  LET decoded == decodeGameStateHash(hash)
  IN [ currentTurn |-> decoded.turn,
       chairsRemaining |->
         [i \in 1..12 |-> (decoded.chairs \div (2 ^ (i - 1))) % 2 # 0],
       player1Score |-> decoded.player1Score,
       player2Score |-> decoded.player2Score,
       player1ElectricCount |-> decoded.player1Electric,
       player2ElectricCount |-> decoded.player2Electric,
       gameStatus |-> getGameStatusFromHash(decoded),
       winner |-> Undefined ]

\* ---------------------------------------------------------------------
\* stateTransition.ts
\* ---------------------------------------------------------------------
\* the pairs of the two nested loops over the chairs present, matched pairs
\* left out
ChoicePairsUnmatched(availableChairs) ==
  {pair \in availableChairs \X availableChairs : pair[1] # pair[2]}

\* the pairs of the two nested loops over the chairs present
ChoicePairs(availableChairs) == availableChairs \X availableChairs

\* one transition per ordered pair of chairs present, none for a state that
\* has ended; processTurn never throws, so no pair is skipped
generateStateTransitions(stateHash) ==
  LET state == hashToGameState(stateHash)
  IN IF state.gameStatus # "IN_PROGRESS" THEN {}
     ELSE {[fromHash |-> stateHash,
            toHash |-> encodeGameStateHash(
                         processTurn(state, pair[1], pair[2]).newGameState),
            attackerChoice |-> pair[1],
            defenderChoice |-> pair[2]] :
              pair \in ChoicePairs(getAvailableChairs(state))}

\* ---------------------------------------------------------------------
\* scripts/generate-hashes: the files of ./state-hashes
\* ---------------------------------------------------------------------
CHUNK_SIZE == 10000

\* no turn has a meta.json or a chunk file
NoFiles == [t \in 0..MAX_TURNS |-> [meta |-> None, chunks |-> <<>>]]

\* the script is not running
NotRunning ==
  [pc |-> "off", chunkSize |-> CHUNK_SIZE, currentTurn |-> 0,
   chunkIndex |-> 0, i |-> 0, nextTurnHashes |-> {}, hashArray |-> <<>>,
   generated |-> {}, processed |-> 0, kills |-> 0, killedAt |-> None]

\* a - b < 0 for two numbers
Less(a, b) == a.hi < b.hi \/ (a.hi = b.hi /\ a.lo < b.lo)

\* Array.from(set).sort((a, b) => a - b): position k holds the number
\* that has k - 1 numbers of the set below it
SortHashes(hashes) ==
  LET placed == {<<Cardinality({y \in hashes : Less(y, x)}) + 1, x>> :
                   x \in hashes}
  IN [k \in 1..Cardinality(hashes) |->
        (CHOOSE place \in placed : place[1] = k)[2]]

\* Math.floor in place of Math.ceil
TotalChunksFloor(hashArray, chunkSize) == Len(hashArray) \div chunkSize

\* Math.ceil(hashArray.length / CHUNK_SIZE), for the CHUNK_SIZE of the run
TotalChunks(hashArray, chunkSize) ==
  (Len(hashArray) + chunkSize - 1) \div chunkSize

\* chunk-<chunkIndex>.json of a turn: the hex texts of
\* hashArray.slice(startIndex, endIndex)
ChunkFile(turn, chunkIndex, hashArray, chunkSize) ==
  LET startIndex == chunkIndex * chunkSize
      endIndex == IF startIndex + chunkSize < Len(hashArray)
                    THEN startIndex + chunkSize ELSE Len(hashArray)
      chunkHashes == [k \in 1..(endIndex - startIndex) |->
                        HexText(hashArray[startIndex + k])]
  IN [turn |-> turn, chunk |-> chunkIndex, count |-> Len(chunkHashes),
      hashes |-> chunkHashes]

\* meta.json of a turn
MetaFile(turn, hashArray, chunkSize) ==
  [turn |-> turn, totalCount |-> Len(hashArray), chunkSize |-> chunkSize,
   chunks |-> TotalChunks(hashArray, chunkSize)]

\* fs.writeFileSync of chunk-<chunkIndex>.json: the file is created or replaced
WriteFile(chunks, chunkIndex, file) ==
  IF chunkIndex < Len(chunks) THEN [chunks EXCEPT ![chunkIndex + 1] = file]
  ELSE Append(chunks, file)

\* the initial state as generateInitialHash builds it, encoded
generateInitialHash ==
  encodeGameStateHash(
    [ currentTurn |-> 0,
      chairsRemaining |-> [i \in 1..12 |-> TRUE],
      player1Score |-> 0,
      player2Score |-> 0,
      player1ElectricCount |-> 0,
      player2ElectricCount |-> 0,
      gameStatus |-> "IN_PROGRESS",
      winner |-> Undefined ])

\* the hex texts of a turn's chunk files, chunk after chunk
RECURSIVE Concat(_)
Concat(chunks) ==
  IF chunks = <<>> THEN <<>>
  ELSE Head(chunks).hashes \o Concat(Tail(chunks))

\* ---------------------------------------------------------------------
\* scripts/analyze: the files of ./analysis-results and the process
\* ---------------------------------------------------------------------
\* a JavaScript object without keys
EmptyObject == [key \in {} |-> 0]

\* no turn has an index.json or a chunk file
NoResults == [t \in 0..MAX_TURNS |-> [index |-> None, chunks |-> <<>>]]

\* the maps of a calculator that has just been constructed: the index cache
\* of its own ChunkedAnalysisStorage, strategyCache and loadedStrategies.
\* The keys of loadedStrategies are numbers that need not be hashes; a key
\* is written as the hex text of its number.
NewCalculator ==
  [indexCache |-> [t \in 0..MAX_TURNS |-> None],
   strategyCache |-> EmptyObject,
   loadedStrategies |-> EmptyObject]

\* the analysis script is not running
NotAnalyzing ==
  [pc |-> "off", numToAnalyze |-> 0, totalProcessed |-> 0, batchCount |-> 0,
   chunkSize |-> 0, calculator |-> NewCalculator, batch |-> None,
   kills |-> 0]

\* no analysis has been run: ./analysis-results is empty
NoAnalysis ==
  /\ progress = None
  /\ analysisResults = NoResults
  /\ driver = NotAnalyzing
  /\ storage = None
  /\ calculation = None

\* ---------------------------------------------------------------------
\* The callers
\* ---------------------------------------------------------------------
\* the w highest-numbered chairs present
TopChairs(gs, w) ==
  LET avail == getAvailableChairs(gs)
  IN {c \in avail : Cardinality({d \in avail : d > c}) < w}

Legal(gs, a, b) ==
  /\ a \in getAvailableChairs(gs)
  /\ b \in getAvailableChairs(gs)

\* one call of processTurn and what the caller observes of it
Call(gs, a, b) ==
  /\ args' = [gameState |-> gs, attackerChoice |-> a, defenderChoice |-> b]
  /\ threw' = processTurnThrows(gs, a, b)
  /\ input' = ArgumentAfter(gs, a, b)
  /\ result' = IF processTurnThrows(gs, a, b) THEN None ELSE processTurn(gs, a, b)
  /\ again' = IF processTurnThrows(gs, a, b) THEN None
              ELSE processTurn(ArgumentAfter(gs, a, b), a, b)

\* App.handleAttackerChoice / generateStateTransitions: a legal pair is
\* applied to an in-progress state and the caller keeps the new state.
Play ==
  /\ gameState.gameStatus = "IN_PROGRESS"
  /\ \E a \in TopChairs(gameState, AttackerWidth) :
       \E b \in TopChairs(gameState, DefenderWidth) :
         /\ Call(gameState, a, b)
         /\ gameState' = processTurn(gameState, a, b).newGameState
         /\ UNCHANGED <<hashing, analysis, app>>

\* choices that are no chair of the state: numbers outside 1..12 and the
\* highest chair already removed
InvalidChoices(gs) ==
  LET removed == (1..CHAIR_COUNT) \ getAvailableChairs(gs)
  IN ((1 - OutOfRange)..0)
     \cup ((CHAIR_COUNT + 1)..(CHAIR_COUNT + OutOfRange))
     \cup {c \in removed : \A d \in removed : d <= c}

\* the last call, if any, was made with chairs of its state
LastCallLegal ==
  IF args = None THEN TRUE
  ELSE Legal(args.gameState, args.attackerChoice, args.defenderChoice)

\* pairs with a choice that is no chair of the state: the chair-selector's
\* choice against the same number or the highest chair, and the highest chair
\* against such an electric-setter's choice
UncheckedPairs(gs) ==
  {<<a, b>> : a \in InvalidChoices(gs), b \in InvalidChoices(gs) \cup TopChairs(gs, 1)}
    \cup {<<a, b>> : a \in TopChairs(gs, 1), b \in InvalidChoices(gs)}

\* processTurn is exported and takes any two numbers: a caller passes a pair
\* it did not validate, once, and looks at the outcome.
PlayUnchecked ==
  /\ LastCallLegal
  /\ gameState.gameStatus = "IN_PROGRESS"
  /\ \E pair \in UncheckedPairs(gameState) :
       /\ ~Legal(gameState, pair[1], pair[2])
       /\ Call(gameState, pair[1], pair[2])
       /\ UNCHANGED <<gameState, hashing, analysis, app>>

\* the game goes on as long as every call was made with chairs of the state
PlayChecked == LastCallLegal /\ Play

\* no game has been played
InitGame ==
  /\ gameState = INITIAL_GAME_STATE
  /\ args = None
  /\ input = None
  /\ result = None
  /\ again = None
  /\ threw = FALSE
  /\ app = None

Init ==
  /\ InitGame
  /\ stateHashes = NoFiles
  /\ enumerator = NotRunning
  /\ NoAnalysis

Next == Play

Spec == Init /\ [][Next]_vars

NextUnchecked == PlayChecked \/ PlayUnchecked

SpecUnchecked == Init /\ [][NextUnchecked]_vars

\* a processTurn call has been made on a state whose status is terminal
CalledOnTerminal ==
  IF args = None THEN FALSE
  ELSE args.gameState.gameStatus # "IN_PROGRESS"

\* handleAttackerChoice runs processTurn whenever an electric-setter's choice
\* is held, whatever the status of the state: a pair is applied to a state
\* that has ended, once, and the caller keeps the state returned.
PlayTerminal ==
  /\ ~CalledOnTerminal
  /\ gameState.gameStatus # "IN_PROGRESS"
  /\ \E a \in TopChairs(gameState, AttackerWidth) :
       \E b \in TopChairs(gameState, DefenderWidth) :
         /\ Call(gameState, a, b)
         /\ gameState' = processTurn(gameState, a, b).newGameState
         /\ UNCHANGED <<hashing, analysis, app>>

\* the game as played until a call is made on a state that has ended
PlayOn == ~CalledOnTerminal /\ Play

NextTerminal == PlayOn \/ PlayTerminal

SpecTerminal == Init /\ [][NextTerminal]_vars

\* ---------------------------------------------------------------------
\* scripts/generate-hashes: the run
\* ---------------------------------------------------------------------
\* the in-progress states that play reaches in t turns when the chair-selector
\* always takes the highest chair and the electric-setter guesses it or not
RECURSIVE Reached(_)
Reached(t) ==
  IF t = 0 THEN {INITIAL_GAME_STATE}
  ELSE {state \in UNION {{processTurn(s, a, b).newGameState :
                            a \in TopChairs(s, 1), b \in TopChairs(s, 2)} :
                          s \in Reached(t - 1)} :
          state.gameStatus = "IN_PROGRESS"}

\* the files of a turn left by an earlier run, cut down to part of the
\* turn's sorted list (the script handles the list hash by hash): the
\* SliceSize highest encodings of the states of Reached(t)
EarlierFiles(t, chunkSize) ==
  LET all == SortHashes({encodeGameStateHash(s) : s \in Reached(t)})
      first == IF Len(all) > SliceSize THEN Len(all) - SliceSize + 1 ELSE 1
      hashArray == SubSeq(all, first, Len(all))
  IN [meta |-> MetaFile(t, hashArray, chunkSize),
      chunks |-> [k \in 1..TotalChunks(hashArray, chunkSize) |->
                    ChunkFile(t, k - 1, hashArray, chunkSize)]]

\* the script starts on an empty directory or on the turns 0..top of an
\* earlier run that was stopped; its chunk files hold CHUNK_SIZE entries,
\* or SmallChunk entries so that the turns of a slice have several chunks
InitEnumerate ==
  /\ InitGame
  /\ NoAnalysis
  /\ \E top \in -1..(MAX_TURNS - 2), chunkSize \in {SmallChunk, CHUNK_SIZE} :
       /\ top >= 0 => Reached(top) # {}
       /\ enumerator = [NotRunning EXCEPT !.pc = "turn0",
                                          !.chunkSize = chunkSize]
       /\ stateHashes = [t \in 0..MAX_TURNS |->
                           IF t <= top THEN EarlierFiles(t, chunkSize)
                           ELSE NoFiles[t]]

\* main, lines 627-648: turn 0 has no meta.json, chunk-0.json is written
WriteInitialChunk ==
  /\ enumerator.pc = "turn0"
  /\ stateHashes[0].meta = None
  /\ stateHashes' = [stateHashes EXCEPT ![0].chunks =
                       WriteFile(@, 0, ChunkFile(0, 0, <<generateInitialHash>>,
                                                 enumerator.chunkSize))]
  /\ enumerator' = [enumerator EXCEPT !.pc = "meta0"]
  /\ UNCHANGED <<game, analysis>>

\* main, lines 650-659: meta.json of turn 0
WriteInitialMeta ==
  /\ enumerator.pc = "meta0"
  /\ stateHashes' = [stateHashes EXCEPT ![0].meta =
                       [turn |-> 0, totalCount |-> 1,
                        chunkSize |-> enumerator.chunkSize, chunks |-> 1]]
  /\ enumerator' = [enumerator EXCEPT !.pc = "loop"]
  /\ UNCHANGED <<game, analysis>>

\* main, line 631: turn 0 has its meta.json already
KeepInitial ==
  /\ enumerator.pc = "turn0"
  /\ stateHashes[0].meta # None
  /\ enumerator' = [enumerator EXCEPT !.pc = "loop"]
  /\ UNCHANGED <<game, stateHashes, analysis>>

\* the loop goes on to the next turn whether its meta.json exists or not
SkipAnyTurn ==
  /\ enumerator.pc = "loop"
  /\ enumerator.currentTurn < 16
  /\ enumerator' = [enumerator EXCEPT !.currentTurn = @ + 1]
  /\ UNCHANGED <<game, stateHashes, analysis>>

\* main, lines 664-673: a turn whose meta.json exists is not generated again
SkipExistingTurn ==
  /\ enumerator.pc = "loop"
  /\ enumerator.currentTurn < 16
  /\ stateHashes[enumerator.currentTurn + 1].meta # None
  /\ enumerator' = [enumerator EXCEPT !.currentTurn = @ + 1]
  /\ UNCHANGED <<game, stateHashes, analysis>>

\* lines 509-530: generateNextTurnHashesComplete(currentTurn) starts: without
\* the turn's meta.json it returns null and the loop ends, with it the set
\* nextTurnHashes is created and the chunks are read from the first
BeginGenerate ==
  /\ enumerator.pc = "loop"
  /\ enumerator.currentTurn < 16
  /\ stateHashes[enumerator.currentTurn + 1].meta = None
  /\ enumerator' =
       IF stateHashes[enumerator.currentTurn].meta = None
         THEN [enumerator EXCEPT !.pc = "done"]
         ELSE [enumerator EXCEPT
                 !.pc = IF stateHashes[enumerator.currentTurn].meta.chunks > 0
                          THEN "read" ELSE "write",
                 !.chunkIndex = 0, !.i = 0, !.nextTurnHashes = {},
                 !.hashArray = <<>>]
  /\ UNCHANGED <<game, stateHashes, analysis>>

\* line 560, keeping every successor whatever its turn
IsNextTurnAny(decoded, nextTurn) == TRUE

\* line 560: decoded.turn === nextTurn
IsNextTurn(decoded, nextTurn) == decoded.turn = nextTurn

\* lines 544-563 for one hash text of a chunk: the toHash of every transition
\* whose decoded turn is the next turn
NextTurnHashesOf(text, nextTurn) ==
  LET currentHash == ParseHex(text)
  IN {transition.toHash :
        transition \in {tr \in generateStateTransitions(currentHash) :
                          IsNextTurn(decodeGameStateHash(tr.toHash), nextTurn)}}

\* lines 533-568 and 584, one pass of the inner loop: hash i of chunk
\* chunkIndex is read, its successors of the next turn are added to the set;
\* after the last hash of the last chunk the set is sorted into hashArray
ProcessHash ==
  /\ enumerator.pc = "read"
  /\ enumerator.processed < MaxProcessed
  /\ LET turnFiles == stateHashes[enumerator.currentTurn]
         hashes == turnFiles.chunks[enumerator.chunkIndex + 1].hashes
         lastOfChunk == enumerator.i + 1 >= Len(hashes)
         lastChunk == enumerator.chunkIndex + 1 >= turnFiles.meta.chunks
         added == enumerator.nextTurnHashes
                    \cup NextTurnHashesOf(hashes[enumerator.i + 1],
                                           enumerator.currentTurn + 1)
     IN enumerator' =
          [enumerator EXCEPT
             !.nextTurnHashes = added,
             !.i = IF lastOfChunk THEN 0 ELSE @ + 1,
             !.chunkIndex = IF lastOfChunk /\ ~lastChunk THEN @ + 1
                            ELSE IF lastOfChunk THEN 0 ELSE @,
             !.pc = IF lastOfChunk /\ lastChunk THEN "write" ELSE "read",
             !.hashArray = IF lastOfChunk /\ lastChunk THEN SortHashes(added)
                           ELSE <<>>,
             !.processed = @ + 1]
  /\ UNCHANGED <<game, stateHashes, analysis>>

\* lines 585-602, one pass of the writing loop: chunk chunkIndex of the
\* sorted array is written
WriteChunk ==
  /\ enumerator.pc = "write"
  /\ LET hashArray == enumerator.hashArray
         nextTurn == enumerator.currentTurn + 1
     IN /\ enumerator.chunkIndex
             < TotalChunks(hashArray, enumerator.chunkSize)
        /\ stateHashes' =
             [stateHashes EXCEPT ![nextTurn].chunks =
                WriteFile(@, enumerator.chunkIndex,
                          ChunkFile(nextTurn, enumerator.chunkIndex, hashArray,
                                    enumerator.chunkSize))]
        /\ enumerator' = [enumerator EXCEPT !.chunkIndex = @ + 1]
  /\ UNCHANGED <<game, analysis>>

\* lines 604-615 and 679-691: meta.json of the next turn is written last; an
\* empty turn ends the loop, otherwise the loop goes on with the next turn
WriteMeta ==
  /\ enumerator.pc = "write"
  /\ LET hashArray == enumerator.hashArray
         nextTurn == enumerator.currentTurn + 1
     IN /\ enumerator.chunkIndex
             >= TotalChunks(hashArray, enumerator.chunkSize)
        /\ stateHashes' =
             [stateHashes EXCEPT
                ![nextTurn].meta = MetaFile(nextTurn, hashArray,
                                            enumerator.chunkSize)]
        /\ enumerator' =
             [enumerator EXCEPT
                !.pc = IF Len(hashArray) = 0 THEN "done" ELSE "loop",
                !.currentTurn = IF Len(hashArray) = 0 THEN @ ELSE @ + 1,
                !.chunkIndex = 0,
                !.nextTurnHashes = {},
                !.hashArray = <<>>,
                !.generated = @ \cup {nextTurn}]
  /\ UNCHANGED <<game, analysis>>

NextEnumerate ==
  \/ WriteInitialChunk
  \/ WriteInitialMeta
  \/ KeepInitial
  \/ SkipExistingTurn
  \/ BeginGenerate
  \/ ProcessHash
  \/ WriteChunk
  \/ WriteMeta

SpecEnumerate == InitEnumerate /\ [][NextEnumerate]_vars

\* the process is killed, at any point between two of its steps, and the
\* script is started again on the files that are there: main runs from its
\* first line with new locals
KillAndRestart ==
  /\ enumerator.pc # "off"
  /\ enumerator.kills < MaxKills
  /\ enumerator' =
       [NotRunning EXCEPT
          !.pc = "turn0",
          !.chunkSize = enumerator.chunkSize,
          !.generated = enumerator.generated,
          !.kills = enumerator.kills + 1,
          !.killedAt = [pc |-> enumerator.pc,
                        currentTurn |-> enumerator.currentTurn,
                        written |-> IF enumerator.pc = "write"
                                      THEN enumerator.chunkIndex ELSE 0]]
  /\ UNCHANGED <<game, stateHashes, analysis>>

NextRestart ==
  \/ NextEnumerate
  \/ KillAndRestart

\* the runs that are killed start on an empty directory or on the files of
\* one of the last turns, whose lists are short
InitRestart ==
  /\ InitEnumerate
  /\ \/ stateHashes[0].meta = None
     \/ stateHashes[MAX_TURNS - 4].meta # None

SpecRestart == InitRestart /\ [][NextRestart]_vars

\* ---------------------------------------------------------------------
\* scripts/analyze: progress.json (AnalysisProgressManager)
\* ---------------------------------------------------------------------
Smaller(a, b) == IF a < b THEN a ELSE b

Larger(a, b) == IF a > b THEN a ELSE b

\* createInitialProgress
createInitialProgress ==
  [analyzedStates |-> EmptyObject, totalStates |-> EmptyObject,
   isComplete |-> FALSE]

\* loadProgress: the content of progress.json, or the initial progress when
\* the file does not exist
loadProgress == IF progress = None THEN createInitialProgress ELSE progress

\* object[key] || 0, every count read as 0
OrZeroAlways(object, key) == 0

\* object[key] || 0
OrZero(object, key) == IF key \in DOMAIN object THEN object[key] ELSE 0

\* object[key] = value
Assign(object, key, value) ==
  [k \in DOMAIN object \cup {key} |-> IF k = key THEN value ELSE object[k]]

\* the first turn of the turns sorted with (a, b) => a - b
FirstTurnAscending(turns) == CHOOSE t \in turns : \A u \in turns : u >= t

\* the first turn of the turns sorted with (a, b) => b - a
FirstTurn(turns) == CHOOSE t \in turns : \A u \in turns : u <= t

\* getNextBatch: the turns of totalStates are visited in descending order, a
\* turn with total 0 or with nothing remaining is passed over, the first
\* other turn is returned with min(remaining, requestedSize)
getNextBatch(requestedSize) ==
  LET totalStates == loadProgress.totalStates
      analyzedStates == loadProgress.analyzedStates
      remaining(turn) == totalStates[turn] - OrZero(analyzedStates, turn)
      open == {turn \in DOMAIN totalStates :
                 totalStates[turn] # 0 /\ remaining(turn) > 0}
  IN IF open = {} THEN None
     ELSE [turn |-> FirstTurn(open),
           remainingCount |-> Smaller(remaining(FirstTurn(open)), requestedSize)]

\* checkCompleteness
checkCompleteness(file) ==
  /\ \A turn \in DOMAIN file.totalStates :
       ~(OrZero(file.analyzedStates, turn) < file.totalStates[turn])
  /\ DOMAIN file.totalStates # {}

\* ---------------------------------------------------------------------
\* scripts/analyze: reading ./state-hashes (hashLoader)
\* ---------------------------------------------------------------------
\* loadTurnMetadata
loadTurnMetadata(turn) ==
  IF turn \in DOMAIN stateHashes THEN stateHashes[turn].meta ELSE None

\* loadTurnChunk
loadTurnChunk(turn, chunk) ==
  IF turn \in DOMAIN stateHashes /\ chunk >= 0
       /\ chunk < Len(stateHashes[turn].chunks)
    THEN stateHashes[turn].chunks[chunk + 1]
    ELSE None

\* Math.max(0, startIndex - chunkStartIndex), read as 0 for every chunk
LocalStartIndexZero(startIndex, chunkStartIndex) == 0

\* Math.max(0, startIndex - chunkStartIndex)
LocalStartIndex(startIndex, chunkStartIndex) ==
  Larger(0, startIndex - chunkStartIndex)

\* loadTurnHashRange, one pass of the loop over the chunks startChunk..endChunk
\* and the passes after it: the slice of the chunk's hashes, each read with
\* parseInt(hexHash, 16)
RECURSIVE LoadChunks(_, _, _, _, _)
LoadChunks(turn, chunkIndex, endChunk, startIndex, endIndex) ==
  IF chunkIndex > endChunk THEN <<>>
  ELSE LET chunkData == loadTurnChunk(turn, chunkIndex)
           metadata == loadTurnMetadata(turn)
           chunkStartIndex == chunkIndex * metadata.chunkSize
           localStartIndex == LocalStartIndex(startIndex, chunkStartIndex)
           localEndIndex == IF chunkData = None THEN 0
                            ELSE Smaller(chunkData.count,
                                         endIndex - chunkStartIndex)
           chunkHashes == IF localStartIndex < localEndIndex
                            THEN [k \in 1..(localEndIndex - localStartIndex) |->
                                    ParseHex(chunkData.hashes[localStartIndex + k])]
                            ELSE <<>>
       IN chunkHashes
            \o LoadChunks(turn, chunkIndex + 1, endChunk, startIndex, endIndex)

\* loadTurnHashRange
loadTurnHashRange(turn, startIndex, count) ==
  LET metadata == loadTurnMetadata(turn)
  IN IF metadata = None THEN <<>>
     ELSE LET endIndex == Smaller(startIndex + count, metadata.totalCount)
              startChunk == startIndex \div metadata.chunkSize
              endChunk == (endIndex - 1) \div metadata.chunkSize
          IN LoadChunks(turn, startChunk, endChunk, startIndex, endIndex)

\* getAvailableTurns: the turns whose directory has a meta.json
getAvailableTurns == {turn \in DOMAIN stateHashes : stateHashes[turn].meta # None}

\* getAllTurnCounts: totalCount of every available turn where it is above 0
getAllTurnCounts ==
  [turn \in {t \in getAvailableTurns : stateHashes[t].meta.totalCount > 0} |->
     stateHashes[turn].meta.totalCount]

\* ---------------------------------------------------------------------
\* scripts/analyze: the strategy store (ChunkedAnalysisStorage)
\*
\* A chunk file lists its strategies under the hex texts of the states. The
\* list is kept in the order in which the keys were added; the states of a
\* turn are always saved in ascending order, which is also the order a
\* JavaScript object gives to keys that read as array indices.
\* ---------------------------------------------------------------------
\* the index that saveTurnResults starts from when the turn has no index.json
NewIndex(chunkSize) ==
  [version |-> "1.0", chunkSize |-> chunkSize, totalChunks |-> 0,
   totalStates |-> 0, hashToChunk |-> EmptyObject]

\* the chunk of a hash that is not in the index yet: one more chunk than the
\* index counts
NewChunkNumberFresh(index, chunkSize) == index.totalChunks

\* the chunk of a hash that is not in the index yet:
\* Math.floor(index.totalStates / this.chunkSize)
NewChunkNumber(index, chunkSize) == index.totalStates \div chunkSize

\* saveTurnResults, lines 71-90, over the entries of turnResult.strategies:
\* every entry gets the chunk the index has for its hex text, or a new one
\* that the index then records. When entry k is handled the index counts
\* the states it had and the new ones among the entries before k.
PlaceStrategies(index, entries, chunkSize) ==
  LET hexHashStr(k) == HexText(entries[k].hash)
      known(k) == hexHashStr(k) \in DOMAIN index.hashToChunk
      newBefore(k) == Cardinality({j \in 1..(k - 1) : ~known(j)})
      chunkNumber(k) ==
        IF known(k) THEN index.hashToChunk[hexHashStr(k)]
        ELSE NewChunkNumber([index EXCEPT !.totalStates = @ + newBefore(k)],
                            chunkSize)
      placed == [k \in 1..Len(entries) |->
                   [chunkNumber |-> chunkNumber(k), hash |-> entries[k].hash,
                    strategy |-> entries[k].strategy]]
      added == {hexHashStr(k) : k \in {j \in 1..Len(entries) : ~known(j)}}
  IN [index |->
        [index EXCEPT
           !.totalStates = @ + newBefore(Len(entries) + 1),
           !.hashToChunk =
             [key \in DOMAIN index.hashToChunk \cup added |->
                IF key \in DOMAIN index.hashToChunk
                  THEN index.hashToChunk[key]
                  ELSE placed[CHOOSE k \in 1..Len(entries) :
                                hexHashStr(k) = key].chunkNumber]],
      placed |-> placed]

\* roundToPrecision on the numbers of a strategy
roundToPrecision(strategy) == [strategy EXCEPT !.rounded = TRUE]

\* formatStrategiesForSave
formatStrategiesForSave(strategies) ==
  [k \in 1..Len(strategies) |->
     [key |-> strategies[k].key,
      strategy |-> roundToPrecision(strategies[k].strategy)]]

\* existingData.strategies[hexKey] = strategy for each of the new
\* strategies: a key the chunk has keeps its place and gets the new
\* strategy, a new key goes to the end
MergeStrategies(strategies, newStrategies) ==
  LET keys == {strategies[k].key : k \in 1..Len(strategies)}
      newOf(key) == newStrategies[CHOOSE j \in 1..Len(newStrategies) :
                                    HexText(newStrategies[j].hash) = key]
      newKeys == {HexText(newStrategies[j].hash) : j \in 1..Len(newStrategies)}
      IsNew(entry) == HexText(entry.hash) \notin keys
      appended == SelectSeq(newStrategies, IsNew)
  IN [k \in 1..Len(strategies) |->
        IF strategies[k].key \in newKeys
          THEN [key |-> strategies[k].key,
                strategy |-> newOf(strategies[k].key).strategy]
          ELSE strategies[k]]
     \o [k \in 1..Len(appended) |->
           [key |-> HexText(appended[k].hash),
            strategy |-> appended[k].strategy]]

\* loadChunk: the chunk file, or null when it does not exist
loadChunk(chunks, chunkNumber) ==
  IF chunkNumber \in DOMAIN chunks THEN chunks[chunkNumber] ELSE None

\* saveChunk: the chunk file after the new strategies are merged into it
saveChunk(chunks, chunkNumber, newStrategies) ==
  LET existingData == IF loadChunk(chunks, chunkNumber) = None
                        THEN [chunkNumber |-> chunkNumber,
                              strategies |-> <<>>, count |-> 0]
                        ELSE loadChunk(chunks, chunkNumber)
      merged == MergeStrategies(existingData.strategies, newStrategies)
  IN [chunkNumber |-> existingData.chunkNumber,
      strategies |-> formatStrategiesForSave(merged),
      count |-> Len(merged)]

\* the placed entries of one chunk, in their order
SelectEntries(entries, chunkNumber) ==
  LET InChunk(entry) == entry.chunkNumber = chunkNumber
  IN SelectSeq(entries, InChunk)

\* saveTurnResults on the directory of a turn: the index is loaded or
\* created, the entries are placed, every chunk that got an entry is saved
\* and counted in totalChunks, the index is saved
saveTurnResults(turnDirectory, entries, chunkSize) ==
  LET index == IF turnDirectory.index = None THEN NewIndex(chunkSize)
               ELSE turnDirectory.index
      placing == PlaceStrategies(index, entries, chunkSize)
      strategiesByChunk == {placing.placed[k].chunkNumber :
                              k \in 1..Len(placing.placed)}
      highest == CHOOSE c \in strategiesByChunk :
                   \A d \in strategiesByChunk : d <= c
  IN [index |-> IF strategiesByChunk = {} THEN placing.index
                ELSE [placing.index EXCEPT
                        !.totalChunks = Larger(@, highest + 1)],
      chunks |-> [c \in DOMAIN turnDirectory.chunks \cup strategiesByChunk |->
                    IF c \in strategiesByChunk
                      THEN saveChunk(turnDirectory.chunks, c,
                                     SelectEntries(placing.placed, c))
                      ELSE turnDirectory.chunks[c]]]

\* getStrategyForState with the index the storage holds for the turn and the
\* chunk files of the turn
getStrategyForState(index, chunks, stateHash) ==
  IF index = None THEN None
  ELSE LET hexHashStr == HexText(stateHash)
       IN IF hexHashStr \notin DOMAIN index.hashToChunk THEN None
          ELSE LET chunk == loadChunk(chunks, index.hashToChunk[hexHashStr])
               IN IF chunk = None THEN None
                  ELSE LET at == {k \in 1..Len(chunk.strategies) :
                                    chunk.strategies[k].key = hexHashStr}
                       IN IF at = {} THEN None
                          ELSE chunk.strategies[CHOOSE k \in at : TRUE].strategy

\* loadIndex of a storage for a turn: the cached index if there is one, else
\* index.json (null when the file does not exist)
loadIndex(indexCache, turn) ==
  IF indexCache[turn] # None THEN indexCache[turn]
  ELSE analysisResults[turn].index

\* ---------------------------------------------------------------------
\* ChunkedAnalysisStorage: one instance with its two caches
\*
\* chunkCache is a Map: its entries are kept in the order in which their
\* keys were first set, and the key `${turn}-${chunkNumber}` is the pair of
\* the two numbers.
\* ---------------------------------------------------------------------
\* the number of chunks loadChunk lets the cache hold before it drops one
maxCacheSize == 10

\* the fields of a storage that has just been constructed
NewStorage(chunkSize) ==
  [chunkSize |-> chunkSize,
   indexCache |-> [t \in 0..MAX_TURNS |-> None],
   chunkCache |-> <<>>]

\* the keys of chunkCache
CacheKeys(chunkCache) == {chunkCache[k].cacheKey : k \in 1..Len(chunkCache)}

\* chunkCache.get(cacheKey)
CacheGet(chunkCache, cacheKey) ==
  chunkCache[CHOOSE k \in 1..Len(chunkCache) :
               chunkCache[k].cacheKey = cacheKey].data

\* chunkCache.set(cacheKey, data) that leaves a key the map has as it is
CacheSetOnce(chunkCache, cacheKey, data) ==
  IF cacheKey \in CacheKeys(chunkCache) THEN chunkCache
  ELSE Append(chunkCache, [cacheKey |-> cacheKey, data |-> data])

\* chunkCache.set(cacheKey, data): a key the map has keeps its place
CacheSet(chunkCache, cacheKey, data) ==
  IF cacheKey \in CacheKeys(chunkCache)
    THEN [k \in 1..Len(chunkCache) |->
            IF chunkCache[k].cacheKey = cacheKey
              THEN [cacheKey |-> cacheKey, data |-> data]
              ELSE chunkCache[k]]
    ELSE Append(chunkCache, [cacheKey |-> cacheKey, data |-> data])

\* loadChunk, lines 216-221: a full cache loses its first key
DropFirstWhenFull(chunkCache) ==
  IF Len(chunkCache) >= maxCacheSize THEN Tail(chunkCache) ELSE chunkCache

\* loadChunk of a storage: the cached chunk, else the chunk file, which is
\* then cached; null when there is neither
loadChunkCached(chunkCache, chunks, turn, chunkNumber) ==
  LET cacheKey == <<turn, chunkNumber>>
  IN IF cacheKey \in CacheKeys(chunkCache)
       THEN [chunk |-> CacheGet(chunkCache, cacheKey),
             chunkCache |-> chunkCache]
     ELSE IF loadChunk(chunks, chunkNumber) = None
       THEN [chunk |-> None, chunkCache |-> chunkCache]
     ELSE [chunk |-> chunks[chunkNumber],
           chunkCache |-> CacheSet(DropFirstWhenFull(chunkCache), cacheKey,
                                   chunks[chunkNumber])]

\* what saveChunk merges into: the chunk loadChunk gave it, if any
LoadedChunks(chunk, chunkNumber) ==
  IF chunk = None THEN EmptyObject ELSE (chunkNumber :> chunk)

\* saveChunk of a storage: the chunk is loaded through the cache, merged,
\* written, and the written chunk is set in the cache
saveChunkCached(chunkCache, chunks, turn, chunkNumber, newStrategies) ==
  LET loaded == loadChunkCached(chunkCache, chunks, turn, chunkNumber)
      chunkData == saveChunk(LoadedChunks(loaded.chunk, chunkNumber),
                             chunkNumber, newStrategies)
  IN [file |-> chunkData,
      chunkCache |-> CacheSet(loaded.chunkCache, <<turn, chunkNumber>>,
                              chunkData)]

\* the keys of strategiesByChunk in the order the map got them
ChunkOrder(placed) ==
  LET IsFirst(k) == \A j \in 1..(k - 1) :
                      placed[j].chunkNumber # placed[k].chunkNumber
      firsts == SelectSeq([k \in 1..Len(placed) |-> k], IsFirst)
  IN [k \in 1..Len(firsts) |-> placed[firsts[k]].chunkNumber]

\* saveTurnResults, lines 93-96: the chunks are saved one after the other
RECURSIVE SaveChunks(_, _, _, _, _)
SaveChunks(chunkCache, chunks, turn, order, placed) ==
  IF order = <<>> THEN [chunks |-> chunks, chunkCache |-> chunkCache]
  ELSE LET saved == saveChunkCached(chunkCache, chunks, turn, Head(order),
                                    SelectEntries(placed, Head(order)))
       IN SaveChunks(saved.chunkCache,
                     Assign(chunks, Head(order), saved.file),
                     turn, Tail(order), placed)

\* saveTurnResults of a storage on the directory of the turn: the index
\* comes through the cache, the saved index is cached
saveTurnResultsCached(instance, turnDirectory, turn, entries) ==
  LET loaded == loadIndex(instance.indexCache, turn)
      index == IF loaded = None THEN NewIndex(instance.chunkSize) ELSE loaded
      placing == PlaceStrategies(index, entries, instance.chunkSize)
      order == ChunkOrder(placing.placed)
      saved == SaveChunks(instance.chunkCache, turnDirectory.chunks, turn,
                          order, placing.placed)
      highest == CHOOSE c \in {order[k] : k \in 1..Len(order)} :
                   \A k \in 1..Len(order) : order[k] <= c
      written == IF order = <<>> THEN placing.index
                 ELSE [placing.index EXCEPT
                         !.totalChunks = Larger(@, highest + 1)]
  IN [directory |-> [index |-> written, chunks |-> saved.chunks],
      instance |-> [instance EXCEPT !.indexCache[turn] = written,
                                    !.chunkCache = saved.chunkCache]]

\* getStrategyForState of a storage: the strategy or null, and the caches
\* after the call
getStrategyForStateCached(instance, stateHash, turn) ==
  LET index == loadIndex(instance.indexCache, turn)
      hexHashStr == HexText(stateHash)
      indexed == [instance EXCEPT !.indexCache[turn] = index]
  IN IF index = None THEN [strategy |-> None, instance |-> instance]
     ELSE IF hexHashStr \notin DOMAIN index.hashToChunk
       THEN [strategy |-> None, instance |-> indexed]
     ELSE LET chunkNumber == index.hashToChunk[hexHashStr]
              loaded == loadChunkCached(instance.chunkCache,
                                        analysisResults[turn].chunks,
                                        turn, chunkNumber)
          IN [strategy |->
                getStrategyForState(index,
                                    LoadedChunks(loaded.chunk, chunkNumber),
                                    stateHash),
              instance |-> [indexed EXCEPT !.chunkCache = loaded.chunkCache]]

\* loadTurnStrategies, lines 325-334: the chunks 0..totalChunks-1 are loaded
\* one after the other
RECURSIVE LoadChunksCached(_, _, _, _, _)
LoadChunksCached(chunkCache, chunks, turn, chunkNumber, totalChunks) ==
  IF chunkNumber >= totalChunks
    THEN [strategies |-> <<>>, chunkCache |-> chunkCache]
  ELSE LET loaded == loadChunkCached(chunkCache, chunks, turn, chunkNumber)
           rest == LoadChunksCached(loaded.chunkCache, chunks, turn,
                                    chunkNumber + 1, totalChunks)
       IN [strategies |-> (IF loaded.chunk = None THEN <<>>
                           ELSE loaded.chunk.strategies) \o rest.strategies,
           chunkCache |-> rest.chunkCache]

\* loadTurnStrategies of a storage: the strategies of the turn under the
\* numbers their hex keys parse to, or null when there are none
loadTurnStrategies(instance, turn) ==
  LET index == loadIndex(instance.indexCache, turn)
      indexed == [instance EXCEPT !.indexCache[turn] = index]
      loaded == LoadChunksCached(instance.chunkCache,
                                 analysisResults[turn].chunks, turn, 0,
                                 index.totalChunks)
      numKeys == {ParseHex(loaded.strategies[k].key) :
                    k \in 1..Len(loaded.strategies)}
      allStrategies ==
        [numKey \in numKeys |->
           loaded.strategies[CHOOSE k \in 1..Len(loaded.strategies) :
             ParseHex(loaded.strategies[k].key) = numKey].strategy]
  IN IF index = None THEN [strategies |-> None, instance |-> instance]
     ELSE [strategies |-> IF numKeys = {} THEN None ELSE allStrategies,
           instance |-> [indexed EXCEPT !.chunkCache = loaded.chunkCache]]

\* deleteTurnResults that leaves the index of the turn in the cache
DeleteIndexKept(indexCache, turn) == indexCache

\* deleteTurnResults, line 378: the index of the turn leaves the cache
DeleteIndex(indexCache, turn) == [indexCache EXCEPT ![turn] = None]

\* deleteTurnResults of a storage: false when the turn has no directory,
\* else the directory is removed with the turn's index and chunks in the
\* caches
deleteTurnResults(instance, results, turn) ==
  LET OfOtherTurn(entry) == entry.cacheKey[1] # turn
  IN IF results[turn] = NoResults[turn]
       THEN [deleted |-> FALSE, results |-> results, instance |-> instance]
     ELSE [deleted |-> TRUE,
           results |-> [results EXCEPT ![turn] = NoResults[turn]],
           instance |->
             [instance EXCEPT
                !.indexCache = DeleteIndex(@, turn),
                !.chunkCache = SelectSeq(@, OfOtherTurn)]]

\* getAnalyzedTurns: the turns whose directory has an index.json
getAnalyzedTurns(results) ==
  {t \in 0..MAX_TURNS : results[t].index # None}

\* clearCache of a storage
clearStorageCache(instance) ==
  [instance EXCEPT !.indexCache = [t \in 0..MAX_TURNS |-> None],
                   !.chunkCache = <<>>]

\* clearAllResults of a storage: every analyzed turn is deleted, then the
\* caches are cleared
clearAllResults(instance, results) ==
  [results |-> [t \in 0..MAX_TURNS |->
                  IF t \in getAnalyzedTurns(results) THEN NoResults[t]
                  ELSE results[t]],
   instance |-> clearStorageCache(instance)]

\* ---------------------------------------------------------------------
\* scripts/analyze: the calculator (OptimalStrategyCalculatorWithStorage)
\*
\* A strategy is kept by what it was computed from: the state, the
\* successors whose stored values entered the payoff matrix, and whether its
\* numbers have been rounded for saving.
\* ---------------------------------------------------------------------
\* getSuccessorStates: the outcome of every pair of available chairs
getSuccessorStates(stateHash) ==
  LET state == hashToGameState(stateHash)
      availableChairs == getAvailableChairs(state)
  IN {[attackerChoice |-> pair[1],
       defenderChoice |-> pair[2],
       hash |-> encodeGameStateHash(
                  processTurn(state, pair[1], pair[2]).newGameState),
       isTerminal |-> processTurn(state, pair[1], pair[2]).newGameState
                        .gameStatus # "IN_PROGRESS"] :
        pair \in availableChairs \X availableChairs}

\* the hashes buildPayoffMatrix needs a strategy for: the outcomes of the
\* state that are not terminal (none for a state that is terminal itself,
\* calculateOptimalStrategy, line 37)
Referenced(stateHash) ==
  IF hashToGameState(stateHash).gameStatus # "IN_PROGRESS" THEN {}
  ELSE {outcome.hash :
          outcome \in {o \in getSuccessorStates(stateHash) : ~o.isTerminal}}

\* buildPayoffMatrix, line 206, going on without a strategy
StrategyNotFoundNever(strategy) == FALSE

\* buildPayoffMatrix, line 206: neither the cache nor the provider had a
\* strategy for the outcome, the error is thrown
StrategyNotFound(strategy) == strategy = None

\* the strategy the calculator computes for a state
Computed(stateHash) ==
  [isCalculated |-> TRUE,
   state |-> HexText(stateHash),
   successors |-> {HexText(hash) : hash \in Referenced(stateHash)},
   rounded |-> FALSE]

\* calculateOptimalStrategy for the states of a batch, one after the other.
\* For each state the calculator's storage is asked first (its index of the
\* state's turn is loaded and kept unless it is cached already), then
\* strategyCache, then the strategy is computed: every outcome that is not
\* terminal is looked up in strategyCache and then through the provider,
\* which loads and keeps the index of the outcome's turn and puts what it
\* finds into strategyCache. No file changes during the loop, and the
\* outcomes have another turn than the states of the batch, so what the
\* loop reads does not depend on its position in the batch.
\* A state that loadedStrategies has under its number is returned from
\* there; every state the loop handles is put into loadedStrategies.
Solve(calculator, statesToAnalyze) ==
  LET states == {statesToAnalyze[k] : k \in 1..Len(statesToAnalyze)}
      turnOf(hash) == decodeGameStateHash(hash).turn
      loaded == {h \in states :
                   HexText(h) \in DOMAIN calculator.loadedStrategies}
      ownIndexes == [t \in 0..MAX_TURNS |->
                       IF t \in {turnOf(h) : h \in states \ loaded}
                         THEN loadIndex(calculator.indexCache, t)
                         ELSE calculator.indexCache[t]]
      saved(h) == getStrategyForState(ownIndexes[turnOf(h)],
                                      analysisResults[turnOf(h)].chunks, h)
      cached == DOMAIN calculator.strategyCache
      toCompute == {h \in states \ loaded :
                      saved(h) = None /\ h \notin cached}
      asked == UNION {Referenced(h) : h \in toCompute} \ cached
      indexes == [t \in 0..MAX_TURNS |->
                    IF t \in {turnOf(o) : o \in asked}
                      THEN loadIndex(ownIndexes, t)
                      ELSE ownIndexes[t]]
      provided(o) == getStrategyForState(indexes[turnOf(o)],
                                         analysisResults[turnOf(o)].chunks, o)
      found == {o \in asked : provided(o) # None}
      strategyOf(h) == IF h \in loaded
                         THEN calculator.loadedStrategies[HexText(h)]
                       ELSE IF saved(h) # None THEN saved(h)
                       ELSE IF h \in cached THEN calculator.strategyCache[h]
                       ELSE Computed(h)
  IN [failed |-> \E o \in asked : StrategyNotFound(provided(o)),
      strategies |-> [k \in 1..Len(statesToAnalyze) |->
                        [hash |-> statesToAnalyze[k],
                         strategy |-> strategyOf(statesToAnalyze[k])]],
      calculator |->
        [indexCache |-> indexes,
         strategyCache |->
           [key \in cached \cup found \cup toCompute |->
              IF key \in cached THEN calculator.strategyCache[key]
              ELSE IF key \in found THEN provided(key)
              ELSE Computed(key)],
         loadedStrategies |->
           [key \in DOMAIN calculator.loadedStrategies
                      \cup {HexText(h) : h \in states} |->
              IF key \in DOMAIN calculator.loadedStrategies
                THEN calculator.loadedStrategies[key]
                ELSE strategyOf(CHOOSE h \in states : HexText(h) = key)]]]

\* Object.entries of the strategies of a batch: the keys are the hashes as
\* decimal texts, all of them array indices, so the entries come in ascending
\* order of the hash, and parseInt gives each hash back
ObjectEntries(strategies) ==
  LET sorted == SortHashes({strategies[k].hash : k \in 1..Len(strategies)})
  IN [k \in 1..Len(sorted) |->
        strategies[CHOOSE j \in 1..Len(strategies) :
                     strategies[j].hash = sorted[k]]]

\* ---------------------------------------------------------------------
\* scripts/analyze: the run (main and AnalysisEngine)
\* ---------------------------------------------------------------------
\* the chunk size AnalysisEngine constructs its ChunkedAnalysisStorage with
StrategyChunkSize == 1000

\* main, line 137: options.num || 1000
DefaultNum == 1000

\* main, line 149: the most states one analyzeBatch call is asked for
BatchLimit == 500

\* the list of a turn split into chunk files of size hashes, and its meta.json
HashFiles(turn, hashArray, size) ==
  LET chunks == (Len(hashArray) + size - 1) \div size
      countOf(chunk) == Smaller(size, Len(hashArray) - chunk * size)
  IN [meta |-> [turn |-> turn, totalCount |-> Len(hashArray),
                chunkSize |-> size, chunks |-> chunks],
      chunks |-> [c \in 1..chunks |->
                    [turn |-> turn, chunk |-> c - 1, count |-> countOf(c - 1),
                     hashes |-> [k \in 1..countOf(c - 1) |->
                                   HexText(hashArray[(c - 1) * size + k])]]]]

\* the sorted list the hash-generation script derives for a turn from the
\* list of the turn before: the states of turn top are those of
\* EarlierFiles(top), every later list holds all successors of the turn
\* before it
RECURSIVE ListFrom(_, _)
ListFrom(top, turn) ==
  IF turn <= top
    THEN LET texts == Concat(EarlierFiles(top, CHUNK_SIZE).chunks)
         IN [k \in 1..Len(texts) |-> ParseHex(texts[k])]
    ELSE LET before == ListFrom(top, turn - 1)
         IN SortHashes(UNION {NextTurnHashesOf(HexText(before[k]), turn) :
                                k \in 1..Len(before)})

\* the analysis script finds the lists of the turns top..last in
\* ./state-hashes, each list complete for the list before it; the script
\* that wrote them was stopped after the list of turn last, or it ended
\* with that list because it is empty. The chunk files of both directories
\* hold SmallChunk entries, or as many as the program gives them.
InitAnalyze ==
  /\ InitGame
  /\ enumerator = NotRunning
  /\ progress = None
  /\ analysisResults = NoResults
  /\ storage = None
  /\ calculation = None
  /\ \E top \in (MAX_TURNS - 1 - ListedTurns)..(MAX_TURNS - 2) :
       \E last \in top..(MAX_TURNS - 1) :
         \E sizes \in {<<SmallChunk, SmallChunk>>,
                       <<CHUNK_SIZE, StrategyChunkSize>>} :
           /\ \A turn \in top..(last - 1) : Len(ListFrom(top, turn)) > 0
           /\ stateHashes =
                [t \in 0..MAX_TURNS |->
                   IF t >= top /\ t <= last
                     THEN HashFiles(t, ListFrom(top, t), sizes[1])
                     ELSE NoFiles[t]]
           /\ driver = [NotAnalyzing EXCEPT !.chunkSize = sizes[2]]

\* main with --init: initializeAnalysis. Without a list that holds a state
\* it throws, otherwise totalStates of progress.json becomes the counts of
\* the lists.
RunInit ==
  /\ driver.pc = "off"
  /\ progress' = IF DOMAIN getAllTurnCounts = {} THEN progress
                 ELSE [loadProgress EXCEPT !.totalStates = getAllTurnCounts]
  /\ driver' = [driver EXCEPT !.calculator = NewCalculator, !.batch = None,
                              !.numToAnalyze = 0, !.totalProcessed = 0]
  /\ UNCHANGED <<game, hashing, units, analysisResults>>

\* main with --clear: clearAllResults. The directory of every turn that has
\* an index.json is removed, analyzedStates is emptied and isComplete reset.
RunClear ==
  /\ driver.pc = "off"
  /\ analysisResults' = [t \in 0..MAX_TURNS |->
                           IF analysisResults[t].index # None THEN NoResults[t]
                           ELSE analysisResults[t]]
  /\ progress' = [loadProgress EXCEPT !.analyzedStates = EmptyObject,
                                      !.isComplete = FALSE]
  /\ driver' = [driver EXCEPT !.calculator = NewCalculator, !.batch = None,
                              !.numToAnalyze = 0, !.totalProcessed = 0]
  /\ UNCHANGED <<game, hashing, units>>

\* String(n) of a number below 2^32: its decimal digits
RECURSIVE DecimalText(_)
DecimalText(n) ==
  LET rest == (n.hi % 10) * (2 ^ 16) + n.lo
  IN IF n.hi = 0 /\ n.lo < 10 THEN <<n.lo>>
     ELSE DecimalText([hi |-> n.hi \div 10, lo |-> rest \div 10])
            \o <<rest % 10>>

\* preloadTurnStrategies, line 94: parseInt(hash, 16) of a key of
\* Object.entries, which is the decimal text of the number. The digits are
\* read as hex digits, so they are the hex text of the key that is set.
PreloadKey(numKey) == DecimalText(numKey)

\* preloadTurnStrategies on a new calculator: loadTurnStrategies of the
\* calculator's own storage, which keeps the index of the turn, and the
\* strategies set in loadedStrategies
preloadTurnStrategies(turn) ==
  LET loaded == loadTurnStrategies(NewStorage(StrategyChunkSize), turn)
      strategies == loaded.strategies
  IN [NewCalculator EXCEPT
        !.indexCache = loaded.instance.indexCache,
        !.loadedStrategies =
           IF strategies = None THEN EmptyObject
           ELSE [key \in {PreloadKey(numKey) : numKey \in DOMAIN strategies} |->
                   strategies[CHOOSE numKey \in DOMAIN strategies :
                                PreloadKey(numKey) = key]]]

\* preloadStrategiesForCurrentAnalysis on a new calculator: when the turn to
\* analyze is above 0 and the turn after it is fully analyzed, that turn is
\* preloaded
Preloaded ==
  LET batch == getNextBatch(1)
      nextTurn == batch.turn + 1
      nextTurnTotal == OrZero(loadProgress.totalStates, nextTurn)
      nextTurnAnalyzed == OrZero(loadProgress.analyzedStates, nextTurn)
  IN IF batch = None THEN NewCalculator
     ELSE IF batch.turn > 0 /\ nextTurnTotal > 0
               /\ nextTurnAnalyzed = nextTurnTotal
            THEN preloadTurnStrategies(nextTurn)
            ELSE NewCalculator

\* main without a mode, lines 137-145: the process starts with --num or the
\* default and preloads
StartAnalysis ==
  /\ driver.pc = "off"
  /\ \E num \in 1..MaxNum \cup {DefaultNum} :
       driver' = [driver EXCEPT !.pc = "loop", !.numToAnalyze = num,
                                !.totalProcessed = 0, !.batchCount = 0,
                                !.calculator = Preloaded, !.batch = None]
  /\ UNCHANGED <<game, hashing, units, progress, analysisResults>>

\* the passes of the loop of main between two memory cleanups
CleanupEvery == 100

\* clearCache of the calculator of the engine: strategyCache is emptied.
\* loadedStrategies is trimmed only above 50000 entries, more than the
\* states of a run here, and the calculator's own storage is left alone.
clearCache(calculator) == [calculator EXCEPT !.strategyCache = EmptyObject]

\* analyzeBatch that counts the states of a batch in progress.json although
\* the process exits
AnalyzeBatchCountingFailed ==
  /\ driver.pc = "loop"
  /\ LET remaining == driver.numToAnalyze - driver.totalProcessed
         batchCount == driver.batchCount + 1
         batchSize == Smaller(remaining, BatchLimit)
         batch == getNextBatch(batchSize)
         alreadyAnalyzed == OrZero(loadProgress.analyzedStates, batch.turn)
         statesToAnalyze == loadTurnHashRange(batch.turn, alreadyAnalyzed,
                                              batch.remainingCount)
         solved == Solve(driver.calculator, statesToAnalyze)
         processedCount == Len(statesToAnalyze)
         called == [turn |-> batch.turn, alreadyAnalyzed |-> alreadyAnalyzed,
                    statesToAnalyze |-> statesToAnalyze]
     IN IF batch = None
          THEN /\ driver' = [driver EXCEPT
                               !.pc = "off", !.batchCount = batchCount,
                               !.batch = [outcome |-> "complete"]]
               /\ UNCHANGED <<progress, analysisResults>>
        ELSE IF Len(statesToAnalyze) = 0
          THEN /\ driver' = [driver EXCEPT
                               !.pc = "off", !.batchCount = batchCount,
                               !.batch = [outcome |-> "no states",
                                          call |-> called]]
               /\ UNCHANGED <<progress, analysisResults>>
        ELSE IF solved.failed
          THEN /\ driver' = [driver EXCEPT
                               !.pc = "off", !.batchCount = batchCount,
                               !.calculator = NewCalculator,
                               !.batch = [outcome |-> "exit",
                                          call |-> called]]
               /\ progress' =
                    [loadProgress EXCEPT !.analyzedStates =
                       Assign(@, batch.turn, alreadyAnalyzed + processedCount)]
               /\ UNCHANGED analysisResults
        ELSE /\ analysisResults' =
                  [analysisResults EXCEPT ![batch.turn] =
                     saveTurnResults(@, ObjectEntries(solved.strategies),
                                     driver.chunkSize)]
             /\ progress' =
                  [loadProgress EXCEPT !.analyzedStates =
                     Assign(@, batch.turn, alreadyAnalyzed + processedCount)]
             /\ driver' =
                  [driver EXCEPT
                     !.totalProcessed = @ + processedCount,
                     !.batchCount = batchCount,
                     !.pc = IF driver.totalProcessed + processedCount
                                 < driver.numToAnalyze
                              THEN "loop" ELSE "off",
                     !.calculator = IF batchCount % CleanupEvery = 0
                                     THEN clearCache(solved.calculator)
                                     ELSE solved.calculator,
                     !.batch = [outcome |-> "analyzed", call |-> called]]
  /\ UNCHANGED <<game, hashing, units>>

\* analyzeBatch as one pass of the loop of main calls it (lines 147-190).
\* Without a batch, or without hashes for it, it returns 0 and the loop
\* ends. When solving a state fails the process exits and nothing is
\* written. Otherwise the strategies are saved, analyzedStates of the turn
\* is raised in progress.json, every CleanupEvery passes the caches are
\* cleared, and the loop goes on while fewer states than asked for have
\* been processed.
\* The storage of the engine is the only writer of the store while the
\* process runs, so what it caches is what the files hold.
AnalyzeBatch ==
  /\ driver.pc = "loop"
  /\ LET remaining == driver.numToAnalyze - driver.totalProcessed
         batchCount == driver.batchCount + 1
         batchSize == Smaller(remaining, BatchLimit)
         batch == getNextBatch(batchSize)
         alreadyAnalyzed == OrZero(loadProgress.analyzedStates, batch.turn)
         statesToAnalyze == loadTurnHashRange(batch.turn, alreadyAnalyzed,
                                              batch.remainingCount)
         solved == Solve(driver.calculator, statesToAnalyze)
         processedCount == Len(statesToAnalyze)
         called == [turn |-> batch.turn, alreadyAnalyzed |-> alreadyAnalyzed,
                    statesToAnalyze |-> statesToAnalyze]
     IN IF batch = None
          THEN /\ driver' = [driver EXCEPT
                               !.pc = "off", !.batchCount = batchCount,
                               !.batch = [outcome |-> "complete"]]
               /\ UNCHANGED <<progress, analysisResults>>
        ELSE IF Len(statesToAnalyze) = 0
          THEN /\ driver' = [driver EXCEPT
                               !.pc = "off", !.batchCount = batchCount,
                               !.batch = [outcome |-> "no states",
                                          call |-> called]]
               /\ UNCHANGED <<progress, analysisResults>>
        ELSE IF solved.failed
          THEN /\ driver' = [driver EXCEPT
                               !.pc = "off", !.batchCount = batchCount,
                               !.calculator = NewCalculator,
                               !.batch = [outcome |-> "exit",
                                          call |-> called]]
               /\ UNCHANGED <<progress, analysisResults>>
        ELSE /\ analysisResults' =
                  [analysisResults EXCEPT ![batch.turn] =
                     saveTurnResults(@, ObjectEntries(solved.strategies),
                                     driver.chunkSize)]
             /\ progress' =
                  [loadProgress EXCEPT !.analyzedStates =
                     Assign(@, batch.turn, alreadyAnalyzed + processedCount)]
             /\ driver' =
                  [driver EXCEPT
                     !.totalProcessed = @ + processedCount,
                     !.batchCount = batchCount,
                     !.pc = IF driver.totalProcessed + processedCount
                                 < driver.numToAnalyze
                              THEN "loop" ELSE "off",
                     !.calculator = IF batchCount % CleanupEvery = 0
                                     THEN clearCache(solved.calculator)
                                     ELSE solved.calculator,
                     !.batch = [outcome |-> "analyzed", call |-> called]]
  /\ UNCHANGED <<game, hashing, units>>

NextAnalyze ==
  \/ RunInit
  \/ RunClear
  \/ StartAnalysis
  \/ AnalyzeBatch

SpecAnalyze == InitAnalyze /\ [][NextAnalyze]_vars

\* saveTurnResults that is stopped after `written` of its writes: the chunk
\* files are written one after the other in the order of strategiesByChunk
\* (lines 92-96), index.json is the last write (line 99)
saveTurnResultsStopped(turnDirectory, entries, chunkSize, written) ==
  LET index == IF turnDirectory.index = None THEN NewIndex(chunkSize)
               ELSE turnDirectory.index
      Stopped(order, whole) ==
        [index |-> IF written > Len(order) THEN whole.index
                   ELSE turnDirectory.index,
         chunks |->
           [c \in DOMAIN turnDirectory.chunks
                    \cup {order[k] : k \in 1..Smaller(written, Len(order))} |->
              IF \E k \in 1..Smaller(written, Len(order)) : order[k] = c
                THEN whole.chunks[c]
                ELSE turnDirectory.chunks[c]]]
  IN Stopped(ChunkOrder(PlaceStrategies(index, entries, chunkSize).placed),
             saveTurnResults(turnDirectory, entries, chunkSize))

\* the writes of one saveTurnResults: its chunk files and index.json
WritesOf(turnDirectory, entries, chunkSize) ==
  LET index == IF turnDirectory.index = None THEN NewIndex(chunkSize)
               ELSE turnDirectory.index
  IN Len(ChunkOrder(PlaceStrategies(index, entries, chunkSize).placed)) + 1

\* analyzeBatch killed as if saveProgress came before saveTurnResults:
\* progress.json already counts the batch
KillInBatchProgressFirst ==
  /\ driver.pc = "loop"
  /\ driver.kills < MaxKills
  /\ LET remaining == driver.numToAnalyze - driver.totalProcessed
         batch == getNextBatch(Smaller(remaining, BatchLimit))
         alreadyAnalyzed == OrZero(loadProgress.analyzedStates, batch.turn)
         statesToAnalyze == loadTurnHashRange(batch.turn, alreadyAnalyzed,
                                              batch.remainingCount)
         Killed(solved) ==
           /\ ~solved.failed
           /\ \E written \in 0..WritesOf(analysisResults[batch.turn],
                                         ObjectEntries(solved.strategies),
                                         driver.chunkSize) :
                /\ analysisResults' =
                     [analysisResults EXCEPT ![batch.turn] =
                        saveTurnResultsStopped(
                          @, ObjectEntries(solved.strategies),
                          driver.chunkSize, written)]
                /\ progress' =
                     [loadProgress EXCEPT !.analyzedStates =
                        Assign(@, batch.turn,
                               alreadyAnalyzed + Len(statesToAnalyze))]
                /\ driver' =
                     [driver EXCEPT
                        !.pc = "off",
                        !.calculator = NewCalculator,
                        !.kills = @ + 1,
                        !.batch = [outcome |-> "killed",
                                   call |-> [turn |-> batch.turn,
                                             alreadyAnalyzed |->
                                               alreadyAnalyzed,
                                             statesToAnalyze |->
                                               statesToAnalyze],
                                   written |-> written]]
     IN IF batch = None THEN FALSE
        ELSE IF Len(statesToAnalyze) = 0 THEN FALSE
        ELSE Killed(Solve(driver.calculator, statesToAnalyze))
  /\ UNCHANGED <<game, hashing, units>>


\* the process is killed inside analyzeBatch, lines 108-190, in a pass that
\* has states to solve and solves them: while it solves (nothing is
\* written), between two writes of saveTurnResults, or after index.json is
\* written and before saveProgress. progress.json is as it was; the caches
\* end with the process.
KillInBatch ==
  /\ driver.pc = "loop"
  /\ driver.kills < MaxKills
  /\ LET remaining == driver.numToAnalyze - driver.totalProcessed
         batch == getNextBatch(Smaller(remaining, BatchLimit))
         alreadyAnalyzed == OrZero(loadProgress.analyzedStates, batch.turn)
         statesToAnalyze == loadTurnHashRange(batch.turn, alreadyAnalyzed,
                                              batch.remainingCount)
         Killed(solved) ==
           /\ ~solved.failed
           /\ \E written \in 0..WritesOf(analysisResults[batch.turn],
                                         ObjectEntries(solved.strategies),
                                         driver.chunkSize) :
                /\ analysisResults' =
                     [analysisResults EXCEPT ![batch.turn] =
                        saveTurnResultsStopped(
                          @, ObjectEntries(solved.strategies),
                          driver.chunkSize, written)]
                /\ driver' =
                     [driver EXCEPT
                        !.pc = "off",
                        !.calculator = NewCalculator,
                        !.kills = @ + 1,
                        !.batch = [outcome |-> "killed",
                                   call |-> [turn |-> batch.turn,
                                             alreadyAnalyzed |->
                                               alreadyAnalyzed,
                                             statesToAnalyze |->
                                               statesToAnalyze],
                                   written |-> written]]
     IN IF batch = None THEN FALSE
        ELSE IF Len(statesToAnalyze) = 0 THEN FALSE
        ELSE Killed(Solve(driver.calculator, statesToAnalyze))
  /\ UNCHANGED <<game, hashing, units, progress>>

NextKill ==
  \/ NextAnalyze
  \/ KillInBatch

SpecKill == InitAnalyze /\ [][NextKill]_vars

\* ---------------------------------------------------------------------
\* A caller of one ChunkedAnalysisStorage
\*
\* The caller saves strategies for ranges of the lists of two turns, as the
\* analysis script does, looks states up, loads and deletes turns. Beside
\* the instance the model keeps what the caller passed to saveTurnResults
\* since the directory of a turn was created: the hex texts in the order in
\* which they were first saved, and the strategy last saved for each.
\* ---------------------------------------------------------------------
\* the turns the caller works on: the last two that are listed
StoreTurns == (MAX_TURNS - 3)..(MAX_TURNS - 2)

\* the whole list of a turn
WholeList(turn) ==
  loadTurnHashRange(turn, 0, loadTurnMetadata(turn).totalCount)

\* the ranges (startIndex, count) of the list of a turn the caller saves:
\* the first two states, or every state but the first
SaveRanges(turn) ==
  {<<0, 2>>, <<1, loadTurnMetadata(turn).totalCount>>}

\* the positions in the list of a turn the caller looks up: the first two
\* states and the last
Probes(turn) == {0, 1, loadTurnMetadata(turn).totalCount - 1}

\* the strategies the caller passes for the hashes: what a calculator
\* computes, marked as calculated or not
StrategiesFor(hashes, calculated) ==
  [k \in 1..Len(hashes) |->
     [hash |-> hashes[k],
      strategy |-> [Computed(hashes[k]) EXCEPT !.isCalculated = calculated]]]

\* the caller has constructed a storage with some chunk size on an empty
\* ./analysis-results; ./state-hashes holds the lists of the two turns
InitStorage ==
  /\ InitGame
  /\ enumerator = NotRunning
  /\ progress = None
  /\ analysisResults = NoResults
  /\ driver = NotAnalyzing
  /\ calculation = None
  /\ stateHashes =
       [t \in 0..MAX_TURNS |->
          IF t \in StoreTurns
            THEN HashFiles(t, ListFrom(MAX_TURNS - 3, t), CHUNK_SIZE)
            ELSE NoFiles[t]]
  /\ \E chunkSize \in {1, SmallChunk} :
       storage = [instance |-> NewStorage(chunkSize),
                  firstSaved |-> [t \in 0..MAX_TURNS |-> <<>>],
                  lastSaved |-> [t \in 0..MAX_TURNS |-> EmptyObject],
                  call |-> None,
                  calls |-> 0]

\* storage.saveTurnResults({turn, strategies, ...})
SaveTurnResults ==
  /\ storage.calls < MaxCalls
  /\ \E turn \in StoreTurns : \E range \in SaveRanges(turn) :
     \E calculated \in {TRUE, range[1] # 0} :
       LET hashes == loadTurnHashRange(turn, range[1], range[2])
           entries == StrategiesFor(hashes, calculated)
           saved == saveTurnResultsCached(storage.instance,
                                          analysisResults[turn], turn, entries)
           IsNew(hash) == HexText(hash) \notin DOMAIN storage.lastSaved[turn]
           added == SelectSeq(hashes, IsNew)
           keys == {HexText(hashes[k]) : k \in 1..Len(hashes)}
       IN /\ analysisResults' = [analysisResults EXCEPT
                                   ![turn] = saved.directory]
          /\ storage' =
               [storage EXCEPT
                  !.instance = saved.instance,
                  !.firstSaved[turn] =
                     @ \o [k \in 1..Len(added) |-> HexText(added[k])],
                  !.lastSaved[turn] =
                     [key \in DOMAIN @ \cup keys |->
                        IF key \in keys
                          THEN entries[CHOOSE k \in 1..Len(hashes) :
                                 HexText(hashes[k]) = key].strategy
                          ELSE @[key]],
                  !.call = [op |-> "saveTurnResults", turn |-> turn,
                            range |-> range],
                  !.calls = @ + 1]
  /\ UNCHANGED <<game, hashing, progress, driver, calculation>>

\* storage.getStrategyForState(stateHash, turn)
GetStrategyForState ==
  /\ storage.calls < MaxCalls
  /\ \E turn \in StoreTurns : \E position \in Probes(turn) :
       LET stateHash == loadTurnHashRange(turn, position, 1)[1]
           got == getStrategyForStateCached(storage.instance, stateHash, turn)
       IN storage' =
            [storage EXCEPT
               !.instance = got.instance,
               !.call = [op |-> "getStrategyForState", turn |-> turn,
                         stateHash |-> stateHash,
                         returned |-> got.strategy],
               !.calls = @ + 1]
  /\ UNCHANGED <<game, hashing, progress, analysisResults, driver,
                 calculation>>

\* storage.loadTurnStrategies(turn)
LoadTurnStrategies ==
  /\ storage.calls < MaxCalls
  /\ \E turn \in StoreTurns :
       LET got == loadTurnStrategies(storage.instance, turn)
       IN storage' =
            [storage EXCEPT
               !.instance = got.instance,
               !.call = [op |-> "loadTurnStrategies", turn |-> turn,
                         returned |-> got.strategies],
               !.calls = @ + 1]
  /\ UNCHANGED <<game, hashing, progress, analysisResults, driver,
                 calculation>>

\* storage.deleteTurnResults(turn)
DeleteTurnResults ==
  /\ storage.calls < MaxCalls
  /\ \E turn \in StoreTurns :
       LET done == deleteTurnResults(storage.instance, analysisResults, turn)
       IN /\ analysisResults' = done.results
          /\ storage' =
               [storage EXCEPT
                  !.instance = done.instance,
                  !.firstSaved[turn] = IF done.deleted THEN <<>> ELSE @,
                  !.lastSaved[turn] = IF done.deleted THEN EmptyObject ELSE @,
                  !.call = [op |-> "deleteTurnResults", turn |-> turn,
                            returned |-> done.deleted],
                  !.calls = @ + 1]
  /\ UNCHANGED <<game, hashing, progress, driver, calculation>>

\* storage.clearAllResults()
ClearAllResults ==
  /\ storage.calls < MaxCalls
  /\ LET done == clearAllResults(storage.instance, analysisResults)
     IN /\ analysisResults' = done.results
        /\ storage' =
             [storage EXCEPT
                !.instance = done.instance,
                !.firstSaved = [t \in 0..MAX_TURNS |->
                                  IF analysisResults[t].index # None
                                    THEN <<>> ELSE @[t]],
                !.lastSaved = [t \in 0..MAX_TURNS |->
                                 IF analysisResults[t].index # None
                                   THEN EmptyObject ELSE @[t]],
                !.call = [op |-> "clearAllResults"],
                !.calls = @ + 1]
  /\ UNCHANGED <<game, hashing, progress, driver, calculation>>

\* the process ends and another one constructs a storage with the same
\* chunk size on the directory as it is
ConstructStorage ==
  /\ storage.calls < MaxCalls
  /\ storage' = [storage EXCEPT
                   !.instance = NewStorage(storage.instance.chunkSize),
                   !.call = [op |-> "constructor"],
                   !.calls = @ + 1]
  /\ UNCHANGED <<game, hashing, progress, analysisResults, driver,
                 calculation>>

NextStorage ==
  \/ SaveTurnResults
  \/ GetStrategyForState
  \/ LoadTurnStrategies
  \/ DeleteTurnResults
  \/ ClearAllResults
  \/ ConstructStorage

SpecStorage == InitStorage /\ [][NextStorage]_vars

\* ---------------------------------------------------------------------
\* NashEquilibriumSolver and the numbers of a strategy
\*
\* A JavaScript number of a payoff matrix or of a strategy is the fraction
\* [num |-> n, den |-> d] in lowest terms with d > 0, and the arithmetic on
\* it is exact.
\* ---------------------------------------------------------------------
RECURSIVE Gcd(_, _)
Gcd(a, b) == IF b = 0 THEN a ELSE Gcd(b, a % b)

Fraction(num, den) ==
  LET g == Gcd(IF num < 0 THEN -num ELSE num, IF den < 0 THEN -den ELSE den)
  IN IF den < 0 THEN [num |-> -(num \div g), den |-> -(den \div g)]
     ELSE [num |-> num \div g, den |-> den \div g]

Whole(n) == [num |-> n, den |-> 1]

\* the least common denominator of two numbers
CommonDen(x, y) == x.den * (y.den \div Gcd(x.den, y.den))

Plus(x, y) ==
  Fraction(x.num * (CommonDen(x, y) \div x.den)
             + y.num * (CommonDen(x, y) \div y.den),
           CommonDen(x, y))

Negative(x) == [num |-> -x.num, den |-> x.den]

Minus(x, y) == Plus(x, Negative(y))

Times(x, y) ==
  LET left == Fraction(x.num, y.den)
      right == Fraction(y.num, x.den)
  IN Fraction(left.num * right.num, left.den * right.den)

Over(x, y) == Times(x, Fraction(y.den, y.num))

LessEq(x, y) ==
  x.num * (CommonDen(x, y) \div x.den) <= y.num * (CommonDen(x, y) \div y.den)

Below(x, y) == ~LessEq(y, x)

Least(x, y) == IF LessEq(x, y) THEN x ELSE y

Greatest(x, y) == IF LessEq(x, y) THEN y ELSE x

RECURSIVE SumOf(_)
SumOf(numbers) ==
  IF numbers = <<>> THEN Whole(0)
  ELSE Plus(numbers[1], SumOf(Tail(numbers)))

RECURSIVE LeastOf(_)
LeastOf(numbers) ==
  IF Len(numbers) = 1 THEN numbers[1]
  ELSE Least(numbers[1], LeastOf(Tail(numbers)))

RECURSIVE GreatestOf(_)
GreatestOf(numbers) ==
  IF Len(numbers) = 1 THEN numbers[1]
  ELSE Greatest(numbers[1], GreatestOf(Tail(numbers)))

\* NashEquilibriumSolver.EPSILON = 5e-8
EPSILON == Fraction(5, 10 ^ 8)

\* payoffMatrix.flat()
Flat(payoffMatrix) ==
  [k \in 1..(Len(payoffMatrix) * Len(payoffMatrix[1])) |->
     payoffMatrix[((k - 1) \div Len(payoffMatrix[1])) + 1]
                 [((k - 1) % Len(payoffMatrix[1])) + 1]]

\* the matrix with rows and columns exchanged
Transposed(payoffMatrix) ==
  [j \in 1..Len(payoffMatrix[1]) |->
     [i \in 1..Len(payoffMatrix) |-> payoffMatrix[i][j]]]

\* solvePlayer1Strategy, lines 275-277
ShiftOf(payoffMatrix) ==
  LET minValue == LeastOf(Flat(payoffMatrix))
  IN IF Below(minValue, Whole(0))
       THEN Plus(Negative(minValue), Whole(1))
       ELSE Whole(0)

Shifted(payoffMatrix) ==
  [i \in 1..Len(payoffMatrix) |->
     [j \in 1..Len(payoffMatrix[i]) |->
        Plus(payoffMatrix[i][j], ShiftOf(payoffMatrix))]]

\* what each column pays when the two rows are played with weights p, 1 - p
Mixed(matrix, p) ==
  [j \in 1..Len(matrix[1]) |->
     Plus(Times(p, matrix[1][j]),
          Times(Minus(Whole(1), p), matrix[2][j]))]

\* the weights of the first of two rows at which the feasible region of the
\* linear program has a vertex: 0, 1, and where two columns pay the same
Breakpoints(matrix) ==
  LET crossing(j, k) ==
        Over(Minus(matrix[2][k], matrix[2][j]),
             Plus(Minus(matrix[1][j], matrix[1][k]),
                  Minus(matrix[2][k], matrix[2][j])))
      columns == 1..Len(matrix[1])
      crossings ==
        {crossing(pair[1], pair[2]) :
           pair \in {q \in columns \X columns :
                       /\ q[1] < q[2]
                       /\ Plus(Minus(matrix[1][q[1]], matrix[1][q[2]]),
                               Minus(matrix[2][q[2]], matrix[2][q[1]]))
                            # Whole(0)}}
  IN {Whole(0), Whole(1)}
       \cup {p \in crossings : LessEq(Whole(0), p) /\ LessEq(p, Whole(1))}

\* Solver.Solve on the model of solvePlayer1Strategy for two rows: the
\* variables are x0, x1 and v, all at least 0; every column pays at least v,
\* x0 + x1 = 1, v is maximal. The solver returns a vertex of the feasible
\* region at which v is maximal; which one, when there are several, is the
\* solver's choice. No entry of a shifted matrix is below 0, so v >= 0 holds
\* at every weight.
SolveMax(matrix) ==
  {[feasible |-> TRUE, x |-> <<p, Minus(Whole(1), p)>>,
    v |-> LeastOf(Mixed(matrix, p))] :
     p \in {p \in Breakpoints(matrix) :
              \A other \in Breakpoints(matrix) :
                LessEq(LeastOf(Mixed(matrix, other)),
                       LeastOf(Mixed(matrix, p)))}}

\* Solver.Solve on the model of solvePlayer2Strategy for two columns: y0, y1
\* and u at least 0, every row pays at most u, y0 + y1 = 1, u is minimal
SolveMin(matrix) ==
  {[feasible |-> TRUE, x |-> <<q, Minus(Whole(1), q)>>,
    v |-> GreatestOf(Mixed(Transposed(matrix), q))] :
     q \in {q \in Breakpoints(Transposed(matrix)) :
              \A other \in Breakpoints(Transposed(matrix)) :
                LessEq(GreatestOf(Mixed(Transposed(matrix), q)),
                       GreatestOf(Mixed(Transposed(matrix), other)))}}

\* lines 323-339 and 422-438: the values of the solution are clipped at 0 and
\* divided by their sum, or replaced by equal weights when the sum is not
\* above EPSILON
Normalised(x) ==
  LET strategy == [i \in 1..Len(x) |-> Greatest(Whole(0), x[i])]
      sum == SumOf(strategy)
  IN IF Below(EPSILON, sum)
       THEN [i \in 1..Len(x) |-> Over(strategy[i], sum)]
       ELSE [i \in 1..Len(x) |-> Fraction(1, Len(x))]

\* the value of the solution is taken without the shift
solvePlayer1StrategyShifted(payoffMatrix, solution) ==
  [player1Strategy |-> Normalised(solution.x),
   player2Strategy |-> <<>>,
   gameValue |-> solution.v,
   isValid |-> TRUE]

\* solvePlayer1Strategy with the solution the solver gave for the shifted
\* matrix
solvePlayer1Strategy(payoffMatrix, solution) ==
  [player1Strategy |-> Normalised(solution.x),
   player2Strategy |-> <<>>,
   gameValue |-> Minus(solution.v, ShiftOf(payoffMatrix)),
   isValid |-> TRUE]

\* solvePlayer2Strategy with the solution the solver gave for the shifted
\* matrix
solvePlayer2Strategy(payoffMatrix, solution) ==
  [player1Strategy |-> <<>>,
   player2Strategy |-> Normalised(solution.x),
   gameValue |-> Minus(solution.v, ShiftOf(payoffMatrix)),
   isValid |-> TRUE]

\* solveZeroSumGame: the results it can return, one for every pair of
\* solutions the solver can give for the two programs
solveZeroSumGame(payoffMatrix) ==
  IF payoffMatrix = <<>> \/ payoffMatrix[1] = <<>>
    THEN {[player1Strategy |-> <<>>, player2Strategy |-> <<>>,
           gameValue |-> Whole(0), isValid |-> FALSE]}
  ELSE IF Len(payoffMatrix) = 1 /\ Len(payoffMatrix[1]) = 1
    THEN {[player1Strategy |-> <<Whole(1)>>, player2Strategy |-> <<Whole(1)>>,
           gameValue |-> payoffMatrix[1][1], isValid |-> TRUE]}
  ELSE {[player1Strategy |-> pair[1].player1Strategy,
         player2Strategy |-> pair[2].player2Strategy,
         gameValue |-> Over(Plus(pair[1].gameValue, pair[2].gameValue),
                            Whole(2)),
         isValid |-> TRUE] :
          pair \in {solvePlayer1Strategy(payoffMatrix, solution) :
                      solution \in SolveMax(Shifted(payoffMatrix))}
                   \X {solvePlayer2Strategy(payoffMatrix, solution) :
                         solution \in SolveMin(Shifted(payoffMatrix))}}

\* verifyNashEquilibrium: what a row pays against player2Strategy, what a
\* column pays against player1Strategy, and the two regrets against
\* gameValue
verifyNashEquilibrium(payoffMatrix, player1Strategy, player2Strategy, value) ==
  LET rowPayoff(i) ==
        SumOf([j \in 1..Len(payoffMatrix[1]) |->
                 Times(payoffMatrix[i][j], player2Strategy[j])])
      colPayoff(j) ==
        SumOf([i \in 1..Len(payoffMatrix) |->
                 Times(payoffMatrix[i][j], player1Strategy[i])])
      maxPlayer1Regret ==
        GreatestOf(<<Whole(0)>> \o
                   [i \in 1..Len(payoffMatrix) |->
                      Minus(rowPayoff(i), value)])
      maxPlayer2Regret ==
        GreatestOf(<<Whole(0)>> \o
                   [j \in 1..Len(payoffMatrix[1]) |->
                      Minus(value, colPayoff(j))])
  IN [isValid |-> LessEq(maxPlayer1Regret, EPSILON)
                    /\ LessEq(maxPlayer2Regret, EPSILON),
      player1Regret |-> maxPlayer1Regret,
      player2Regret |-> maxPlayer2Regret]

\* ---------------------------------------------------------------------
\* OptimalStrategyCalculatorWithStorage: the strategies it computes
\*
\* The files of ./analysis-results are the function results from the hex
\* key of a state to the strategy that is stored for it.
\* ---------------------------------------------------------------------
\* AnalysisConfig.precisionDigits of the default config
precisionDigits == 6

\* roundToPrecision(value, precision): Math.round(value * factor) / factor,
\* where Math.round takes a half upwards
RoundNumber(value, precision) ==
  LET scaled == Times(value, Whole(10 ^ precision))
  IN Fraction((2 * scaled.num + scaled.den) \div (2 * scaled.den),
              10 ^ precision)

\* formatStrategiesForSave on one strategy
FormatNumbers(strategy, precision) ==
  [player1Probabilities |->
     [i \in 1..Len(strategy.player1Probabilities) |->
        RoundNumber(strategy.player1Probabilities[i], precision)],
   player2Probabilities |->
     [i \in 1..Len(strategy.player2Probabilities) |->
        RoundNumber(strategy.player2Probabilities[i], precision)],
   expectedValue |-> RoundNumber(strategy.expectedValue, precision),
   isCalculated |-> strategy.isCalculated]

\* getAvailableChairs as the array it is: the chair numbers in rising order
RECURSIVE ChairList(_)
ChairList(chairs) ==
  IF chairs = {} THEN <<>>
  ELSE LET first == CHOOSE c \in chairs : \A other \in chairs : c <= other
       IN <<first>> \o ChairList(chairs \ {first})

\* the value of a finished game for Player 1 with the draw value that is
\* passed (getSuccessorStates, lines 131-143, and calculateTerminalStrategy,
\* lines 62-74)
StatusValue(gameStatus, draw) ==
  IF gameStatus = "PLAYER1_WIN" THEN Whole(1)
  ELSE IF gameStatus = "PLAYER2_WIN" THEN Whole(-1)
  ELSE IF gameStatus = "DRAW" THEN draw
  ELSE Whole(0)

\* a draw is worth 0 whatever the calculator was constructed with
calculateTerminalStrategyZeroDraw(drawValue, state) ==
  [player1Probabilities |-> [i \in 1..CHAIR_COUNT |-> Whole(0)],
   player2Probabilities |-> [i \in 1..CHAIR_COUNT |-> Whole(0)],
   expectedValue |-> StatusValue(state.gameStatus, Whole(0)),
   isCalculated |-> TRUE]

\* calculateTerminalStrategy of a calculator constructed with drawValue
calculateTerminalStrategy(drawValue, state) ==
  [player1Probabilities |-> [i \in 1..CHAIR_COUNT |-> Whole(0)],
   player2Probabilities |-> [i \in 1..CHAIR_COUNT |-> Whole(0)],
   expectedValue |-> StatusValue(state.gameStatus, drawValue),
   isCalculated |-> TRUE]

\* one entry of the outcomes of getSuccessorStates: the state after
\* processTurn, its hash, and for a finished game its value with
\* getDrawValue(), the draw value of the config file
Outcome(stateHash, attackerChoice, defenderChoice, fileDraw) ==
  LET newGameState == processTurn(hashToGameState(stateHash), attackerChoice,
                                  defenderChoice).newGameState
  IN [hash |-> encodeGameStateHash(newGameState),
      isTerminal |-> newGameState.gameStatus # "IN_PROGRESS",
      gameStatus |-> newGameState.gameStatus,
      expectedValue |-> StatusValue(newGameState.gameStatus, fileDraw)]

\* the outcome buildPayoffMatrix reads for row i and column j with the
\* roles exchanged
OutcomeAtExchanged(stateHash, availableChairs, i, j, fileDraw) ==
  IF getCurrentAttacker(hashToGameState(stateHash).currentTurn) = PLAYER1
    THEN Outcome(stateHash, availableChairs[j], availableChairs[i], fileDraw)
    ELSE Outcome(stateHash, availableChairs[i], availableChairs[j], fileDraw)

\* the outcome buildPayoffMatrix reads for row i and column j: Player 1 chose
\* availableChairs[i] and Player 2 availableChairs[j], and the attacker of
\* the turn is the one whose choice is attackChoice (lines 176-186)
OutcomeAt(stateHash, availableChairs, i, j, fileDraw) ==
  IF getCurrentAttacker(hashToGameState(stateHash).currentTurn) = PLAYER1
    THEN Outcome(stateHash, availableChairs[i], availableChairs[j], fileDraw)
    ELSE Outcome(stateHash, availableChairs[j], availableChairs[i], fileDraw)

\* the keys the results hold for a turn
KeysOfTurn(results, turn) ==
  {key \in DOMAIN results : decodeGameStateHash(ParseHex(key)).turn = turn}

\* loadIndex of the calculator's own storage: the cached index, or the
\* index file of the turn, which is then cached; None without a file
IndexOf(indexCache, results, turn) ==
  IF indexCache[turn] # None THEN indexCache[turn]
  ELSE IF KeysOfTurn(results, turn) = {} THEN None
  ELSE [stateHashes |-> KeysOfTurn(results, turn)]

\* getStrategyForState of the calculator's own storage
Stored(indexCache, results, stateHash) ==
  LET index == IndexOf(indexCache, results, decodeGameStateHash(stateHash).turn)
  IN IF index = None THEN None
     ELSE IF HexText(stateHash) \notin index.stateHashes THEN None
     ELSE results[HexText(stateHash)]

\* buildPayoffMatrix from entry k on, in the order of the two loops: the
\* entries, whether the error was thrown, and the two caches afterwards
RECURSIVE PayoffEntries(_, _, _, _, _, _)
PayoffEntries(calculator, results, fileDraw, stateHash, availableChairs, k) ==
  LET size == Len(availableChairs)
      \* the entry of outcome, with what getStrategyForState of the own
      \* storage provides for its hash and the index loadIndex leaves cached
      Entry(outcome, provided, index) ==
        LET turn == decodeGameStateHash(outcome.hash).turn
            cached == outcome.hash \in DOMAIN calculator.strategyCache
            strategy == IF outcome.isTerminal THEN None
                        ELSE IF cached
                          THEN calculator.strategyCache[outcome.hash]
                        ELSE provided
            asked == [calculator EXCEPT
                        !.indexCache[turn] = index,
                        !.strategyCache =
                           IF provided = None THEN @
                           ELSE Assign(@, outcome.hash, provided)]
            after == IF outcome.isTerminal \/ cached THEN calculator
                     ELSE asked
            rest == PayoffEntries(after, results, fileDraw, stateHash,
                                  availableChairs, k + 1)
        IN IF ~outcome.isTerminal /\ StrategyNotFound(strategy)
             THEN [entries |-> <<>>, thrown |-> TRUE, calculator |-> after]
           ELSE [rest EXCEPT
                   !.entries =
                      <<IF outcome.isTerminal THEN outcome.expectedValue
                        ELSE strategy.expectedValue>> \o @]
      Read(outcome) ==
        Entry(outcome,
              Stored(calculator.indexCache, results, outcome.hash),
              IndexOf(calculator.indexCache, results,
                      decodeGameStateHash(outcome.hash).turn))
  IN IF k > size * size
       THEN [entries |-> <<>>, thrown |-> FALSE, calculator |-> calculator]
     ELSE Read(OutcomeAt(stateHash, availableChairs,
                         ((k - 1) \div size) + 1, ((k - 1) % size) + 1,
                         fileDraw))

\* buildPayoffMatrix: the matrix of the entries, row by row
buildPayoffMatrix(calculator, results, fileDraw, stateHash) ==
  LET Matrix(availableChairs, built) ==
        [thrown |-> built.thrown,
         calculator |-> built.calculator,
         payoffMatrix |->
           IF built.thrown THEN <<>>
           ELSE [i \in 1..Len(availableChairs) |->
                   [j \in 1..Len(availableChairs) |->
                      built.entries[(i - 1) * Len(availableChairs) + j]]]]
      From(availableChairs) ==
        Matrix(availableChairs,
               PayoffEntries(calculator, results, fileDraw, stateHash,
                             availableChairs, 1))
  IN From(ChairList(getAvailableChairs(hashToGameState(stateHash))))

\* lines 140-147 with the position of the chair in availableChairs as the
\* index
OnChairsUnshifted(strategy, availableChairs) ==
  [c \in 1..CHAIR_COUNT |->
     IF c \in 1..Len(availableChairs) THEN strategy[c] ELSE Whole(0)]

\* lines 140-147: the weight of availableChairs[i] is put at index
\* availableChairs[i] - 1 of an array of 12 zeros
OnChairs(strategy, availableChairs) ==
  [c \in 1..CHAIR_COUNT |->
     IF \E i \in 1..Len(availableChairs) : availableChairs[i] = c
       THEN strategy[CHOOSE i \in 1..Len(availableChairs) :
                       availableChairs[i] = c]
       ELSE Whole(0)]

\* calculateMixedStrategyLP: the results it can have. The error of
\* buildPayoffMatrix is passed on; a solution that is not valid throws as
\* well; a failed verification is only logged.
calculateMixedStrategyLP(calculator, results, fileDraw, stateHash) ==
  LET Solved(state, availableChairs, built) ==
        IF availableChairs = <<>>
          THEN {[thrown |-> FALSE, calculator |-> calculator,
                 payoffMatrix |-> <<>>,
                 strategy |-> calculateTerminalStrategy(calculator.drawValue,
                                                        state)]}
        ELSE IF built.thrown
          THEN {[thrown |-> TRUE, calculator |-> built.calculator,
                 payoffMatrix |-> <<>>, strategy |-> None]}
        ELSE {[thrown |-> ~nashResult.isValid,
               calculator |-> built.calculator,
               payoffMatrix |-> built.payoffMatrix,
               strategy |->
                 IF ~nashResult.isValid THEN None
                 ELSE [player1Probabilities |->
                         OnChairs(nashResult.player1Strategy,
                                  availableChairs),
                       player2Probabilities |->
                         OnChairs(nashResult.player2Strategy,
                                  availableChairs),
                       expectedValue |-> nashResult.gameValue,
                       isCalculated |-> TRUE]] :
                nashResult \in solveZeroSumGame(built.payoffMatrix)}
      Of(state) ==
        Solved(state, ChairList(getAvailableChairs(state)),
               buildPayoffMatrix(calculator, results, fileDraw, stateHash))
  IN Of(hashToGameState(stateHash))

\* calculateOptimalStrategy of the base class: the cached strategy, or the
\* one that is computed and then cached (fewer than MAX_CACHE_SIZE states
\* are ever cached here)
calculateBase(calculator, results, fileDraw, stateHash) ==
  LET state == hashToGameState(stateHash)
      computed ==
        IF state.gameStatus # "IN_PROGRESS"
          THEN {[thrown |-> FALSE, calculator |-> calculator,
                 payoffMatrix |-> <<>>,
                 strategy |-> calculateTerminalStrategy(calculator.drawValue,
                                                        state)]}
          ELSE calculateMixedStrategyLP(calculator, results, fileDraw,
                                        stateHash)
  IN IF stateHash \in DOMAIN calculator.strategyCache
       THEN {[thrown |-> FALSE, calculator |-> calculator,
              payoffMatrix |-> <<>>, from |-> "strategyCache",
              strategy |-> calculator.strategyCache[stateHash]]}
       ELSE {[thrown |-> c.thrown,
              payoffMatrix |-> c.payoffMatrix,
              from |-> "computed",
              strategy |-> c.strategy,
              calculator |->
                IF c.thrown THEN c.calculator
                ELSE [c.calculator EXCEPT
                        !.strategyCache = Assign(@, stateHash, c.strategy)]] :
               c \in computed}

\* calculateOptimalStrategy of OptimalStrategyCalculatorWithStorage: from
\* loadedStrategies, else from the own storage, else from the base class;
\* what is returned is kept in loadedStrategies
calculateOptimalStrategy(calculator, results, fileDraw, stateHash) ==
  LET turn == decodeGameStateHash(stateHash).turn
      savedStrategy == Stored(calculator.indexCache, results, stateHash)
      asked == [calculator EXCEPT
                  !.indexCache[turn] =
                     IndexOf(calculator.indexCache, results, turn)]
  IN IF HexText(stateHash) \in DOMAIN calculator.loadedStrategies
       THEN {[thrown |-> FALSE, calculator |-> calculator,
              payoffMatrix |-> <<>>, from |-> "loadedStrategies",
              strategy |-> calculator.loadedStrategies[HexText(stateHash)]]}
     ELSE IF savedStrategy # None
       THEN {[thrown |-> FALSE, payoffMatrix |-> <<>>, from |-> "storage",
              strategy |-> savedStrategy,
              calculator |->
                [asked EXCEPT
                   !.loadedStrategies =
                      Assign(@, HexText(stateHash), savedStrategy)]]}
     ELSE {[c EXCEPT
              !.calculator =
                 IF c.thrown THEN @
                 ELSE [@ EXCEPT
                         !.loadedStrategies =
                            Assign(@, HexText(stateHash), c.strategy)]] :
             c \in calculateBase(asked, results, fileDraw, stateHash)}

\* ---------------------------------------------------------------------
\* A caller of one OptimalStrategyCalculatorWithStorage
\*
\* The states that are solved are reached from INITIAL_GAME_STATE by lines
\* of play: a line is the sequence of the pairs <<attackerChoice,
\* defenderChoice>> of its turns.
\* ---------------------------------------------------------------------
\* count turns in which the attacker sits on the electrified chair 1
Shocks(count) == [k \in 1..count |-> <<1, 1>>]

\* turns in which the attackers take the chairs of order, one after the
\* other, while another chair is electrified
Taking(order, electrified) ==
  [k \in 1..Len(order) |-> <<order[k], electrified>>]

\* lines that end in a state with two chairs: at turn 14 after two shocks
\* for each player (with 37:38, 38:37 and, chairs 1 and 3 left, 36:38
\* points), at turn 13 after two shocks for Player 1 and one for Player 2
\* (37:38 points), and that line one shock longer
LinesOfPlay ==
  <<Shocks(4) \o Taking(<<12, 11, 10, 9, 8, 7, 4, 6, 3, 5>>, 1),
    Shocks(4) \o Taking(<<11, 12, 9, 10, 7, 8, 6, 4, 5, 3>>, 1),
    Shocks(4) \o Taking(<<12, 11, 10, 9, 8, 7, 4, 6, 2, 5>>, 1),
    Shocks(3) \o Taking(<<11, 12, 9, 10, 7, 8, 6, 4, 5, 3>>, 1),
    Shocks(3) \o Taking(<<11, 12, 9, 10, 7, 8, 6, 4, 5, 3>>, 1) \o Shocks(1)>>

\* the state a line of play ends in
RECURSIVE StateAfter(_)
StateAfter(line) ==
  IF line = <<>> THEN INITIAL_GAME_STATE
  ELSE processTurn(StateAfter(SubSeq(line, 1, Len(line) - 1)),
                   line[Len(line)][1], line[Len(line)][2]).newGameState

\* a hash as the hash files and the keys of the results give it
Listed(hash) == ParseHex(HexText(hash))

\* the in-progress states that are solved
SolvedInputs ==
  {Listed(encodeGameStateHash(StateAfter(LinesOfPlay[k]))) :
     k \in 1..Len(LinesOfPlay)}

\* the finished games that a pair of chairs leads to from the state of the
\* first line: a win of Player 2 by the third shock, a draw and a win of
\* Player 1 on points
TerminalInputs ==
  {Listed(outcome.hash) :
     outcome \in {o \in getSuccessorStates(
                           Listed(encodeGameStateHash(
                                    StateAfter(LinesOfPlay[1])))) :
                    o.isTerminal}}

\* the draw values of a config file and of --draw-value
DrawValues == {Whole(0), Fraction(1, 2)}

\* new OptimalStrategyCalculatorWithStorage(drawValue)
NewCalculatorWith(drawValue) ==
  [drawValue |-> drawValue,
   indexCache |-> NewCalculator.indexCache,
   strategyCache |-> NewCalculator.strategyCache,
   loadedStrategies |-> NewCalculator.loadedStrategies]

\* the config of the engine: the config of the file with drawValue replaced
\* by --draw-value when the option is given
EngineDraw(fileDraw, option) ==
  IF option = None THEN fileDraw ELSE option

\* a process of scripts/analyze with its engine: the draw value of the
\* config file, the option, the calculator, what ./analysis-results holds,
\* and the last call on the calculator
NewProcess(fileDraw, option, results, calls) ==
  [fileDraw |-> fileDraw,
   option |-> option,
   calculator |-> NewCalculatorWith(EngineDraw(fileDraw, option)),
   results |-> results,
   last |-> None,
   calls |-> calls]

InitSolve ==
  /\ InitGame
  /\ enumerator = NotRunning
  /\ stateHashes = NoFiles
  /\ progress = None
  /\ analysisResults = NoResults
  /\ driver = NotAnalyzing
  /\ storage = None
  /\ \E fileDraw \in DrawValues, option \in DrawValues \cup {None} :
       calculation = NewProcess(fileDraw, option, EmptyObject, 0)

\* one state of a batch of analyzeBatch: calculateOptimalStrategy, then
\* saveTurnResults of the engine's storage, which writes the strategy with
\* its numbers rounded. When calculateOptimalStrategy throws, nothing is
\* written and the process exits: the calculator of the next process is new.
AnalyzeState ==
  /\ calculation.calls < MaxSolves
  /\ \E stateHash \in SolvedInputs :
       \E call \in calculateOptimalStrategy(calculation.calculator,
                                            calculation.results,
                                            calculation.fileDraw, stateHash) :
         calculation' =
           [calculation EXCEPT
              !.calculator = IF call.thrown
                               THEN NewCalculatorWith(@.drawValue)
                               ELSE call.calculator,
              !.results =
                 IF call.thrown THEN @
                 ELSE Assign(@, HexText(stateHash),
                             FormatNumbers(call.strategy, precisionDigits)),
              !.last = [stateHash |-> stateHash, thrown |-> call.thrown,
                        from |-> call.from,
                        payoffMatrix |-> call.payoffMatrix,
                        strategy |-> call.strategy],
              !.calls = @ + 1]
  /\ UNCHANGED <<game, hashing, progress, analysisResults, driver, storage>>

\* calculateOptimalStrategy on the hash of a finished game
CalculateTerminal ==
  /\ calculation.calls < MaxSolves
  /\ \E stateHash \in TerminalInputs :
       \E call \in calculateOptimalStrategy(calculation.calculator,
                                            calculation.results,
                                            calculation.fileDraw, stateHash) :
         calculation' =
           [calculation EXCEPT
              !.calculator = call.calculator,
              !.last = [stateHash |-> stateHash, thrown |-> call.thrown,
                        from |-> call.from,
                        payoffMatrix |-> call.payoffMatrix,
                        strategy |-> call.strategy],
              !.calls = @ + 1]
  /\ UNCHANGED <<game, hashing, progress, analysisResults, driver, storage>>

\* engine.clearCache
ClearCache ==
  /\ calculation.calls < MaxSolves
  /\ calculation.calculator.strategyCache # EmptyObject
  /\ calculation' =
       [calculation EXCEPT !.calculator = clearCache(@), !.calls = @ + 1]
  /\ UNCHANGED <<game, hashing, progress, analysisResults, driver, storage>>

\* the process ends and another one is started on the same
\* ./analysis-results and the same config file
StartProcess ==
  /\ calculation.calls < MaxSolves
  /\ calculation.last # None
  /\ \E option \in DrawValues \cup {None} :
       calculation' = NewProcess(calculation.fileDraw, option,
                                 calculation.results, calculation.calls + 1)
  /\ UNCHANGED <<game, hashing, progress, analysisResults, driver, storage>>

NextSolve ==
  \/ AnalyzeState
  \/ CalculateTerminal
  \/ ClearCache
  \/ StartProcess

SpecSolve == InitSolve /\ [][NextSolve]_vars

\* ---------------------------------------------------------------------
\* App: the game UI with its CPU players
\* ---------------------------------------------------------------------
\* the resets of a game
MaxResets == 1

\* the times a player is switched between human and CPU
MaxToggles == 2

\* the clicks on a chair while a CPU turn is being processed
MaxEarlyClicks == 1

getChairSelector(turn) == getCurrentAttacker(turn)

getElectricSetter(turn) == getCurrentDefender(turn)

\* a chair number where null is possible as well
Chosen(chairNumber) == [chair |-> chairNumber]

\* the games that are played: to turn 13 with chairs 1 and 2 left, 38:37
\* points and one shock for Player 1, two for Player 2, and the first of
\* LinesOfPlay, to turn 14
GamesPlayed ==
  <<<<<<1, 1>>, <<1, 1>>, <<9, 1>>, <<1, 1>>, <<8, 1>>, <<12, 1>>, <<7, 1>>,
      <<11, 1>>, <<6, 1>>, <<10, 1>>, <<5, 1>>, <<4, 1>>, <<3, 1>>>>,
    LinesOfPlay[1]>>

\* the states of the games that are played, turn by turn
StatesPlayed ==
  [g \in 1..Len(GamesPlayed) |->
     [k \in 1..(Len(GamesPlayed[g]) + 1) |->
        StateAfter(SubSeq(GamesPlayed[g], 1, k - 1))]]

\* the chairs a player clicks, and the chairs Math.random gives, in a state:
\* in a state of the games that are played the chair that game continues
\* with (role 1 selects the chair, role 2 sets the electricity), in another
\* state the highest chair
ChairsTaken(state, role) ==
  LET played == {g \in 1..Len(GamesPlayed) :
                   /\ state.currentTurn + 1 <= Len(GamesPlayed[g])
                   /\ StatesPlayed[g][state.currentTurn + 1] = state}
  IN IF played = {}
       THEN TopChairs(state, 1)
       ELSE {GamesPlayed[g][state.currentTurn + 1][role] : g \in played}
              \cap getAvailableChairs(state)

\* the strategy calculateOptimalStrategy returns for a state whose
\* successors are all finished games, as saveTurnResults writes it
StoredStrategy(stateHash) ==
  FormatNumbers(
    (CHOOSE call \in calculateOptimalStrategy(NewCalculatorWith(Whole(0)),
                                               EmptyObject, Whole(0),
                                               stateHash) : TRUE).strategy,
    precisionDigits)

\* /analysis-results as the UI fetches it: the strategies of the last states
\* of the games that are played
ServedStrategies ==
  LET hashes == {Listed(encodeGameStateHash(
                          StatesPlayed[g][Len(GamesPlayed[g]) + 1])) :
                   g \in 1..Len(GamesPlayed)}
  IN [key \in {HexText(h) : h \in hashes} |-> StoredStrategy(ParseHex(key))]

\* StaticStrategyAPI.getStrategy: the strategy under the hex text of the
\* hash in the chunk the index names, or null
getStrategy(stateHash) ==
  LET Found(served) ==
        IF HexText(stateHash) \in DOMAIN served
          THEN served[HexText(stateHash)]
          ELSE None
  IN Found(ServedStrategies)

\* selectChairByProbability: the chairs it can return. Math.random() * totalProb
\* <= cumulative holds at the first chair for the random number 0, and at a
\* chair of positive probability for the numbers up to its cumulative sum
selectChairByProbability(probabilities, state) ==
  LET availableChairs == ChairList(getAvailableChairs(state))
  IN IF availableChairs = <<>> THEN {1}
     ELSE {availableChairs[1]}
            \cup {c \in getAvailableChairs(state) : probabilities[c].num > 0}

\* getCpuChoice, lines 21-23, reading the vector of the other role
ProbabilitiesOfExchanged(strategy, state, playerNumber) ==
  IF getCurrentAttacker(state.currentTurn) = playerNumber
    THEN strategy.player2Probabilities
    ELSE strategy.player1Probabilities

\* getCpuChoice, lines 21-23: the vector that is sampled
ProbabilitiesOf(strategy, state, playerNumber) ==
  IF getCurrentAttacker(state.currentTurn) = playerNumber
    THEN strategy.player1Probabilities
    ELSE strategy.player2Probabilities

\* getCpuChoice once the strategy is fetched: the locals it can end with;
\* cpuChoice is None for null
getCpuChoice(state, playerNumber) ==
  LET Random(strategy) ==
        IF getAvailableChairs(state) = {}
          THEN {[strategy |-> strategy, probabilities |-> None,
                 cpuChoice |-> None]}
          ELSE {[strategy |-> strategy, probabilities |-> None,
                 cpuChoice |-> Chosen(c)] :
                  c \in ChairsTaken(state,
                                     IF getCurrentAttacker(
                                          state.currentTurn) = playerNumber
                                       THEN 1 ELSE 2)}
      Sample(strategy, probabilities) ==
        {[strategy |-> strategy, probabilities |-> probabilities,
          cpuChoice |-> Chosen(c)] :
           c \in selectChairByProbability(probabilities, state)}
      With(strategy) ==
        IF strategy = None THEN Random(strategy)
        ELSE IF ~strategy.isCalculated THEN Random(strategy)
        ELSE Sample(strategy, ProbabilitiesOf(strategy, state, playerNumber))
  IN With(getStrategy(encodeGameStateHash(state)))

\* the App as it is mounted: lines 30-40, and no CPU turn pending
Mounted ==
  [gameState |-> INITIAL_GAME_STATE,
   attackerChoice |-> None,
   defenderChoice |-> None,
   gamePhase |-> "DEFENDER_SELECTION",
   gameHistory |-> <<>>,
   isPlayer1Cpu |-> FALSE,
   isPlayer2Cpu |-> FALSE,
   isProcessingCpu |-> FALSE,
   pending |-> None,
   resets |-> 0,
   toggles |-> 0,
   earlyClicks |-> 0]

\* handleDefenderChoice, whichever render it belongs to
handleDefenderChoice(current, chairNumber) ==
  [current EXCEPT !.defenderChoice = Chosen(chairNumber),
                  !.gamePhase = "ATTACKER_SELECTION"]

\* handleAttackerChoice of the render that saw the state rendered: gameState
\* and defenderChoice are those of that render, the setters act on the
\* current state
handleAttackerChoice(current, rendered, chairNumber) ==
  LET Turned(turnResult) ==
        [current EXCEPT
           !.gameState = turnResult.newGameState,
           !.gameHistory =
              IF turnResult.scoreGained > 0 \/ turnResult.electricReceived
                THEN Append(@,
                       [round |-> (rendered.gameState.currentTurn \div 2) + 1,
                        player |->
                          getChairSelector(rendered.gameState.currentTurn),
                        points |-> turnResult.scoreGained,
                        electricShock |-> turnResult.electricReceived,
                        chairNumber |-> chairNumber,
                        turn |-> rendered.gameState.currentTurn])
                ELSE @,
           !.attackerChoice =
              IF turnResult.newGameState.gameStatus = "IN_PROGRESS"
                THEN None ELSE Chosen(chairNumber),
           !.defenderChoice =
              IF turnResult.newGameState.gameStatus = "IN_PROGRESS"
                THEN None ELSE @,
           !.gamePhase =
              IF turnResult.newGameState.gameStatus = "IN_PROGRESS"
                THEN "DEFENDER_SELECTION" ELSE "GAME_ENDED"]
  IN IF rendered.defenderChoice = None
       THEN [current EXCEPT !.attackerChoice = Chosen(chairNumber)]
       ELSE Turned(processTurn(rendered.gameState, chairNumber,
                               rendered.defenderChoice.chair))

\* resetGame, lines 87-93; a CPU turn that is pending was started before
\* the reset
resetGame(current) ==
  [current EXCEPT
     !.gameState = INITIAL_GAME_STATE,
     !.attackerChoice = None,
     !.defenderChoice = None,
     !.gamePhase = "DEFENDER_SELECTION",
     !.gameHistory = <<>>,
     !.pending = IF @ = None THEN @ ELSE [@ EXCEPT !.beforeReset = TRUE],
     !.resets = @ + 1]

\* the player whose choice the phase waits for
PlayerToChoose(rendered) ==
  IF rendered.gamePhase = "DEFENDER_SELECTION"
    THEN getElectricSetter(rendered.gameState.currentTurn)
    ELSE getChairSelector(rendered.gameState.currentTurn)

\* the effect of lines 96-140 after a render, up to its first await:
\* processCpuTurn returns, or it sets isProcessingCpu and waits for the
\* strategy with the state, the phase and the handlers of this render
processCpuTurn(rendered) ==
  LET Started(currentPlayer) ==
        IF ~(\/ currentPlayer = PLAYER1 /\ rendered.isPlayer1Cpu
             \/ currentPlayer = PLAYER2 /\ rendered.isPlayer2Cpu)
          THEN rendered
          ELSE [rendered EXCEPT
                  !.isProcessingCpu = TRUE,
                  !.pending = [gameState |-> rendered.gameState,
                               gamePhase |-> rendered.gamePhase,
                               defenderChoice |-> rendered.defenderChoice,
                               currentPlayer |-> currentPlayer,
                               awaiting |-> "getCpuChoice",
                               strategy |-> None,
                               probabilities |-> None,
                               cpuChoice |-> None,
                               beforeReset |-> FALSE]]
  IN IF rendered.gamePhase = "GAME_ENDED" \/ rendered.isProcessingCpu
       THEN rendered
       ELSE Started(PlayerToChoose(rendered))

InitApp ==
  /\ gameState = INITIAL_GAME_STATE
  /\ args = None
  /\ input = None
  /\ result = None
  /\ again = None
  /\ threw = FALSE
  /\ stateHashes = NoFiles
  /\ enumerator = NotRunning
  /\ NoAnalysis
  /\ app = Mounted

\* a click on a chair of the board: GameBoard calls onChairSelect for a chair
\* that is available, and the phase decides which handler that is
ClickChair ==
  /\ app.gamePhase # "GAME_ENDED"
  /\ app.isProcessingCpu => app.earlyClicks < MaxEarlyClicks
  /\ \E chairNumber \in ChairsTaken(app.gameState,
                                     IF app.gamePhase = "DEFENDER_SELECTION"
                                       THEN 2 ELSE 1) :
       \E handled \in {IF app.gamePhase = "DEFENDER_SELECTION"
                         THEN handleDefenderChoice(app, chairNumber)
                         ELSE handleAttackerChoice(app, app, chairNumber)} :
         app' = processCpuTurn(
                  [handled EXCEPT
                     !.earlyClicks = IF app.isProcessingCpu THEN @ + 1 ELSE @])
  /\ UNCHANGED <<gameState, args, input, result, again, threw, hashing,
                 analysis>>

\* a click on the reset button
ClickReset ==
  /\ app.resets < MaxResets
  /\ app' = processCpuTurn(resetGame(app))
  /\ UNCHANGED <<gameState, args, input, result, again, threw, hashing,
                 analysis>>

\* CpuSettings switches one player between human and CPU
ToggleCpu ==
  /\ app.toggles < MaxToggles
  /\ \E playerNumber \in {PLAYER1, PLAYER2} :
       app' = processCpuTurn(
                IF playerNumber = PLAYER1
                  THEN [app EXCEPT !.isPlayer1Cpu = ~@, !.toggles = @ + 1]
                  ELSE [app EXCEPT !.isPlayer2Cpu = ~@, !.toggles = @ + 1])
  /\ UNCHANGED <<gameState, args, input, result, again, threw, hashing,
                 analysis>>

\* lines 120-123 and 133-135: getCpuChoice resolves. With a chair the delay
\* of 500 ms begins; with null isProcessingCpu is set back.
CpuChoiceResolves ==
  /\ app.pending # None
  /\ app.pending.awaiting = "getCpuChoice"
  /\ \E resolved \in getCpuChoice(app.pending.gameState,
                                  app.pending.currentPlayer) :
       app' =
         IF resolved.cpuChoice = None
           THEN processCpuTurn([app EXCEPT !.isProcessingCpu = FALSE,
                                           !.pending = None])
           ELSE [app EXCEPT
                   !.pending = [@ EXCEPT
                                  !.awaiting = "setTimeout",
                                  !.strategy = resolved.strategy,
                                  !.probabilities = resolved.probabilities,
                                  !.cpuChoice = resolved.cpuChoice]]
  /\ UNCHANGED <<gameState, args, input, result, again, threw, hashing,
                 analysis>>

\* lines 125-135: the delay is over, the handler of the render that started
\* the CPU turn is called with the choice, and isProcessingCpu is set back
CpuChoiceApplied ==
  /\ app.pending # None
  /\ app.pending.awaiting = "setTimeout"
  /\ \E handled \in {IF app.pending.gamePhase = "DEFENDER_SELECTION"
                       THEN handleDefenderChoice(app,
                                                 app.pending.cpuChoice.chair)
                       ELSE handleAttackerChoice(app, app.pending,
                                                 app.pending.cpuChoice.chair)} :
       app' = processCpuTurn([handled EXCEPT !.isProcessingCpu = FALSE,
                                             !.pending = None])
  /\ UNCHANGED <<gameState, args, input, result, again, threw, hashing,
                 analysis>>

NextApp ==
  \/ ClickChair
  \/ ClickReset
  \/ ToggleCpu
  \/ CpuChoiceResolves
  \/ CpuChoiceApplied

SpecApp == InitApp /\ [][NextApp]_vars

\* ---------------------------------------------------------------------
\* Properties
\* ---------------------------------------------------------------------
\* a processTurn call has been made and returned
Returned == args # None /\ result # None

\* the last call was made with chairs of its state
LegalCall ==
  /\ Returned
  /\ args.gameState.gameStatus = "IN_PROGRESS"
  /\ Legal(args.gameState, args.attackerChoice, args.defenderChoice)

\* the chair-selector of the last call: Player 1 on even turns
Selector == IF args.gameState.currentTurn % 2 = 0 THEN 1 ELSE 2

Score(gs, p) == IF p = 1 THEN gs.player1Score ELSE gs.player2Score

Electric(gs, p) == IF p = 1 THEN gs.player1ElectricCount ELSE gs.player2ElectricCount

SameFields(a, b) ==
  /\ a.currentTurn = b.currentTurn
  /\ getAvailableChairs(a) = getAvailableChairs(b)
  /\ a.player1Score = b.player1Score
  /\ a.player2Score = b.player2Score
  /\ a.player1ElectricCount = b.player1ElectricCount
  /\ a.player2ElectricCount = b.player2ElectricCount

\* C1: every state reached by processTurn decodes from its encoding with the
\* same turn, chairs, scores and shock counts, and every member x of an
\* enumerated per-turn set (the encoding of an in-progress state, as the
\* enumerator holds it and as it reads it back from the hex text of a chunk
\* file) is re-encoded to the same 32 bits.
C1_RoundTrip ==
  LET h == encodeGameStateHash(gameState)
      x == ParseHex(HexText(h))
  IN /\ SameFields(hashToGameState(h), gameState)
     /\ gameState.gameStatus = "IN_PROGRESS" =>
          /\ encodeGameStateHash(hashToGameState(h)) = h
          /\ SameFields(hashToGameState(x), gameState)
          /\ HexText(encodeGameStateHash(hashToGameState(x))) = HexText(h)

\* a state of turn 8 or later (top bit of the encoding set) with a score
\* that needs all six bits has been encoded
C1_Witness ==
  /\ gameState.gameStatus = "IN_PROGRESS"
  /\ gameState.currentTurn >= 8
  /\ gameState.player1Score >= 32
  /\ encodeGameStateHash(gameState).hi < 0

\* the status rule as the specification words it, with a win at exactly 40
RuleStatus(turn, chairs, scoreA, scoreB, shockA, shockB) ==
  IF shockA = 3 THEN "PLAYER2_WIN"
  ELSE IF shockB = 3 THEN "PLAYER1_WIN"
  ELSE IF scoreA = 40 THEN "PLAYER1_WIN"
  ELSE IF scoreB = 40 THEN "PLAYER2_WIN"
  ELSE IF Cardinality(chairs) = 1 \/ turn >= 15
       THEN IF scoreA > scoreB THEN "PLAYER1_WIN"
            ELSE IF scoreB > scoreA THEN "PLAYER2_WIN"
            ELSE "DRAW"
  ELSE "IN_PROGRESS"

\* C2: on the fields of every state, checkGameEnd and getGameStatusFromHash
\* give the status of the priority rule (a score wins at exactly 40).
C2_StatusFollowsRule ==
  LET rule == RuleStatus(gameState.currentTurn, getAvailableChairs(gameState),
                         gameState.player1Score, gameState.player2Score,
                         gameState.player1ElectricCount,
                         gameState.player2ElectricCount)
  IN /\ checkGameEnd(gameState) = rule
     /\ getGameStatusFromHash(
          decodeGameStateHash(encodeGameStateHash(gameState))) = rule

C4_MatchedShocksSelector ==
  (LegalCall /\ args.attackerChoice = args.defenderChoice) =>
     /\ Score(result.newGameState, Selector) = 0
     /\ Electric(result.newGameState, Selector)
          = Electric(args.gameState, Selector) + 1
     /\ getAvailableChairs(result.newGameState)
          = getAvailableChairs(args.gameState)

\* Player 2, selecting on an odd turn with points to lose, was shocked
C4_Witness ==
  /\ LegalCall
  /\ args.attackerChoice = args.defenderChoice
  /\ Selector = 2
  /\ args.gameState.player2Score > 0
  /\ result.newGameState.player2ElectricCount = 1

\* C5: an unmatched legal pair (a, b) adds exactly a to the chair-selector's
\* score, removes chair a and no other, and leaves the electric-setter's score
\* and shock count and the selector's shock count as they were.
C5_UnmatchedScoresSelector ==
  (LegalCall /\ args.attackerChoice # args.defenderChoice) =>
     /\ Score(result.newGameState, Selector)
          = Score(args.gameState, Selector) + args.attackerChoice
     /\ getAvailableChairs(result.newGameState)
          = getAvailableChairs(args.gameState) \ {args.attackerChoice}
     /\ Score(result.newGameState, 3 - Selector)
          = Score(args.gameState, 3 - Selector)
     /\ Electric(result.newGameState, 3 - Selector)
          = Electric(args.gameState, 3 - Selector)
     /\ Electric(result.newGameState, Selector)
          = Electric(args.gameState, Selector)

\* Player 2, selecting on an odd turn, scored while Player 1 held points and a shock
C5_Witness ==
  /\ LegalCall
  /\ args.attackerChoice # args.defenderChoice
  /\ Selector = 2
  /\ args.gameState.player1Score > 0
  /\ args.gameState.player1ElectricCount > 0
  /\ result.newGameState.player2Score > args.gameState.player2Score

ChairRemoved ==
  getAvailableChairs(result.newGameState) # getAvailableChairs(args.gameState)

SelectorScoreChanged ==
  Score(result.newGameState, Selector) # Score(args.gameState, Selector)

\* C6 as stated: exactly one of (a chair is removed and the selector's score
\* does not change) or (no chair is removed and the selector's score changes).
C6_RemovedXorScoreChanged ==
  LegalCall =>
    (ChairRemoved /\ ~SelectorScoreChanged)
      # (~ChairRemoved /\ SelectorScoreChanged)

\* C6 amended: exactly one of (a chair is removed and the selector's score
\* increases) or (no chair is removed, the selector's score becomes 0 and the
\* selector's shock count increases by one).
C6_ScoreXorShock ==
  LegalCall =>
    (/\ ChairRemoved
     /\ Score(result.newGameState, Selector) > Score(args.gameState, Selector))
      # (/\ ~ChairRemoved
         /\ Score(result.newGameState, Selector) = 0
         /\ Electric(result.newGameState, Selector)
              = Electric(args.gameState, Selector) + 1)

\* a selector without points was shocked: no chair removed, score still 0
C6_Witness ==
  /\ LegalCall
  /\ ~ChairRemoved
  /\ ~SelectorScoreChanged
  /\ result.electricReceived

\* C7: the state returned for a legal pair has turn + 1 when its status is
\* in-progress and the unchanged turn when its status is terminal.
C7_TurnAdvance ==
  LegalCall =>
    result.newGameState.currentTurn =
      IF result.newGameState.gameStatus = "IN_PROGRESS"
        THEN args.gameState.currentTurn + 1
        ELSE args.gameState.currentTurn

\* a call ended the game and the turn stayed
C7_Witness ==
  /\ LegalCall
  /\ result.newGameState.gameStatus # "IN_PROGRESS"
  /\ args.gameState.currentTurn > 0
  /\ result.newGameState.currentTurn = args.gameState.currentTurn

C9_PureCall ==
  Returned =>
    /\ again = result
    /\ input = args.gameState

\* a call removed a chair in its result and the argument still has it
C9_Witness ==
  /\ Returned
  /\ args.attackerChoice \notin getAvailableChairs(result.newGameState)
  /\ args.attackerChoice \in getAvailableChairs(input)

\* C10: a processTurn call whose chair-selector or electric-setter choice is
\* outside 1..12 or not present in the state fails with an error and returns
\* no new state.
C10_InvalidChoiceFails ==
  (/\ args # None
   /\ ~Legal(args.gameState, args.attackerChoice, args.defenderChoice)) =>
     /\ threw
     /\ result = None

\* a field of the state is wider than its bits in the encoding
FieldOverflow(gs) ==
  \/ gs.currentTurn > 15
  \/ gs.player1Score > 63
  \/ gs.player2Score > 63
  \/ gs.player1ElectricCount > 3
  \/ gs.player2ElectricCount > 3

\* C11: processTurn called on a state whose status is terminal fails with an
\* error and produces no successor state.
C11_TerminalStepFails ==
  CalledOnTerminal =>
    /\ threw
    /\ result = None

\* C12: encodeGameStateHash does not return an encoding for a state with a
\* field wider than its bits (turn > 15, a score > 63, a shock count > 3), and
\* an encoding it returns decodes to the fields of the state it was given.
C12_OverflowRejected ==
  /\ FieldOverflow(gameState) => encodeGameStateHashThrows(gameState)
  /\ ~encodeGameStateHashThrows(gameState) =>
       SameFields(hashToGameState(encodeGameStateHash(gameState)), gameState)

\* the hex texts persisted for a turn
Persisted(t) ==
  LET list == Concat(stateHashes[t].chunks)
  IN {list[k] : k \in 1..Len(list)}

\* the states that processTurn returns for every ordered pair of chairs
\* present, over every state of the persisted list of turn t
Results(t) ==
  UNION {LET state == hashToGameState(ParseHex(text))
         IN {processTurn(state, a, b).newGameState :
               a \in getAvailableChairs(state), b \in getAvailableChairs(state)} :
           text \in Persisted(t)}

InProgressResults(t) == {r \in Results(t) : r.gameStatus = "IN_PROGRESS"}

TerminalResults(t) == {r \in Results(t) : r.gameStatus # "IN_PROGRESS"}

\* the script is between two turns: every meta.json it has written is final
BetweenTurns == enumerator.pc \in {"loop", "done"}

\* C13: for every turn t whose next turn the script has generated, the list
\* persisted for turn t + 1 holds exactly the encodings of the in-progress
\* results of processTurn with every ordered pair of chairs present on every
\* state of turn t's list, each of them once.
C13_ExactSuccessorSet ==
  BetweenTurns =>
    \A t \in 0..(MAX_TURNS - 1) :
      (t + 1) \in enumerator.generated =>
        LET list == Concat(stateHashes[t + 1].chunks)
        IN /\ Persisted(t + 1)
                = {HexText(encodeGameStateHash(r)) : r \in InProgressResults(t)}
           /\ \A j \in 1..Len(list) : \A k \in 1..Len(list) :
                 list[j] = list[k] => j = k

\* a turn has been generated from a list with two states that share a
\* successor and with a state that has a terminal successor
C13_Witness ==
  /\ BetweenTurns
  /\ \E t \in 0..(MAX_TURNS - 1) :
       /\ (t + 1) \in enumerator.generated
       /\ TerminalResults(t) # {}
       /\ \E x \in Persisted(t) : \E y \in Persisted(t) :
            /\ x # y
            /\ NextTurnHashesOf(x, t + 1) \cap NextTurnHashesOf(y, t + 1) # {}

\* C14 as stated: every terminal state that processTurn returns for a state
\* of turn t's list is in the persisted list of the turn in its own turn field.
C14_TerminalRecorded ==
  BetweenTurns =>
    \A t \in 0..(MAX_TURNS - 1) :
      (t \in enumerator.generated /\ (t + 1) \in enumerator.generated) =>
        \A r \in TerminalResults(t) :
          HexText(encodeGameStateHash(r)) \in Persisted(r.currentTurn)

\* C14 amended: no terminal state that processTurn returns for a state of
\* turn t's list is in any persisted list, and every encoding persisted for a
\* generated turn decodes to an in-progress state.
C14_TerminalDropped ==
  BetweenTurns =>
    \A t \in 0..(MAX_TURNS - 1) :
      (t + 1) \in enumerator.generated =>
        /\ \A r \in TerminalResults(t) : \A u \in 0..MAX_TURNS :
             HexText(encodeGameStateHash(r)) \notin Persisted(u)
        /\ \A text \in Persisted(t + 1) :
             hashToGameState(ParseHex(text)).gameStatus = "IN_PROGRESS"

\* two turns in a row have been generated and a state of the first has a
\* terminal successor
C14_Witness ==
  /\ BetweenTurns
  /\ \E t \in 0..(MAX_TURNS - 1) :
       /\ t \in enumerator.generated
       /\ (t + 1) \in enumerator.generated
       /\ Persisted(t + 1) # {}
       /\ TerminalResults(t) # {}

\* ---------------------------------------------------------------------
\* Properties of the analysis run
\* ---------------------------------------------------------------------
\* the turns progress.json counts states for
CountedTurns == DOMAIN loadProgress.totalStates

\* totalStates of a turn in progress.json
TotalOf(turn) == loadProgress.totalStates[turn]

\* analyzedStates of a turn in progress.json, 0 when it has none
AnalyzedOf(turn) ==
  IF turn \in DOMAIN loadProgress.analyzedStates
    THEN loadProgress.analyzedStates[turn] ELSE 0

\* every turn with a nonzero total is fully analyzed
AllAnalyzed ==
  \A turn \in CountedTurns : TotalOf(turn) # 0 => AnalyzedOf(turn) = TotalOf(turn)

\* the last analyzeBatch call of the process took up a batch
BatchTaken ==
  IF driver.batch = None THEN FALSE ELSE driver.batch.outcome # "complete"

\* the last analyzeBatch call of the process solved and saved its batch
BatchAnalyzed ==
  IF driver.batch = None THEN FALSE ELSE driver.batch.outcome = "analyzed"

\* C15: analyzeBatch takes up a batch of turn t, and so solves a state of
\* turn t, only when every turn greater than t with a nonzero total is fully
\* analyzed (analyzedStates = totalStates), and every state of the batch is a
\* state of turn t.
C15_DescendingTurns ==
  BatchTaken =>
    /\ \A turn \in CountedTurns :
         turn > driver.batch.call.turn /\ TotalOf(turn) # 0
           => AnalyzedOf(turn) = TotalOf(turn)
    /\ \A k \in 1..Len(driver.batch.call.statesToAnalyze) :
         decodeGameStateHash(driver.batch.call.statesToAnalyze[k]).turn
           = driver.batch.call.turn

\* a batch of a turn has been solved after the batches of a greater turn
C15_Witness ==
  /\ BatchAnalyzed
  /\ \E turn \in CountedTurns :
       turn > driver.batch.call.turn /\ TotalOf(turn) > 0

\* the hex texts that the chunk files of a turn hold a strategy under
StoredKeys(turn) ==
  UNION {{analysisResults[turn].chunks[c].strategies[k].key :
            k \in 1..Len(analysisResults[turn].chunks[c].strategies)} :
          c \in DOMAIN analysisResults[turn].chunks}

\* the states that a legal pair of chairs leads to from the state of a hash
SuccessorsOf(stateHash) ==
  {processTurn(hashToGameState(stateHash), pair[1], pair[2]).newGameState :
     pair \in getAvailableChairs(hashToGameState(stateHash))
                \X getAvailableChairs(hashToGameState(stateHash))}

\* the states of the batch that the last analyzeBatch call solved
SolvedStates ==
  {driver.batch.call.statesToAnalyze[k] :
     k \in 1..Len(driver.batch.call.statesToAnalyze)}

\* C16: when a state s of turn t has been solved, every successor of s over
\* all legal pairs is terminal or is an in-progress state of turn t + 1 with
\* a strategy persisted in the store under turn t + 1.
C16_SuccessorsPersisted ==
  BatchAnalyzed =>
    \A stateHash \in SolvedStates :
      \A successor \in SuccessorsOf(stateHash) :
        \/ successor.gameStatus # "IN_PROGRESS"
        \/ /\ successor.currentTurn = driver.batch.call.turn + 1
           /\ HexText(encodeGameStateHash(successor))
                \in StoredKeys(driver.batch.call.turn + 1)

\* a solved state has an in-progress successor and a terminal one
C16_Witness ==
  /\ BatchAnalyzed
  /\ \E stateHash \in SolvedStates :
       /\ \E successor \in SuccessorsOf(stateHash) :
            successor.gameStatus = "IN_PROGRESS"
       /\ \E successor \in SuccessorsOf(stateHash) :
            successor.gameStatus # "IN_PROGRESS"

\* C17: once progress.json counts the states of some turn, isComplete is
\* true if and only if every turn with a nonzero total has analyzedStates
\* equal to totalStates.
C17_CompleteIffAnalyzed ==
  CountedTurns # {} => (loadProgress.isComplete <=> AllAnalyzed)

\* the reachability list of a turn: the hex texts of its chunk files, chunk
\* after chunk
ListOf(turn) == Concat(stateHashes[turn].chunks)

\* the positions alreadyAnalyzed .. alreadyAnalyzed + count - 1 of the list of
\* the batch's turn, counted from 0, as numbers
BatchRange ==
  [k \in 1..Len(driver.batch.call.statesToAnalyze) |->
     ParseHex(ListOf(driver.batch.call.turn)
                [driver.batch.call.alreadyAnalyzed + k])]

\* C18: a solved batch of a turn holds exactly the hashes at the positions
\* alreadyAnalyzed .. alreadyAnalyzed + count - 1 of the turn's list, in file
\* order, and the next batch of the turn starts at alreadyAnalyzed + count;
\* so for every turn the store holds a strategy for exactly the first
\* analyzedStates states of the list, each written by one batch, and
\* analyzedStates never passes the length of the list.
C18_BatchesPartitionList ==
  /\ BatchAnalyzed =>
       /\ driver.batch.call.statesToAnalyze = BatchRange
       /\ AnalyzedOf(driver.batch.call.turn)
            = driver.batch.call.alreadyAnalyzed
                + Len(driver.batch.call.statesToAnalyze)
  /\ \A turn \in CountedTurns :
       /\ AnalyzedOf(turn) <= Len(ListOf(turn))
       /\ TotalOf(turn) = Len(ListOf(turn))
       /\ StoredKeys(turn) = {ListOf(turn)[k] : k \in 1..AnalyzedOf(turn)}
       /\ Cardinality(StoredKeys(turn)) = AnalyzedOf(turn)

\* a solved batch starts inside a chunk file of the list and ends in the
\* next chunk file
C18_Witness ==
  /\ BatchAnalyzed
  /\ LET chunkSize == stateHashes[driver.batch.call.turn].meta.chunkSize
         first == driver.batch.call.alreadyAnalyzed
         last == first + Len(driver.batch.call.statesToAnalyze) - 1
     IN /\ first % chunkSize # 0
        /\ first \div chunkSize < last \div chunkSize

\* C19: when every turn with a nonzero total is fully analyzed, a step of an
\* analysis run (the start with its preload, or an analyzeBatch call with
\* whatever count is left to ask for) processes no state and leaves the
\* chunk files and the index.json of every turn and progress.json as they
\* are.
C19_RerunChangesNothing ==
  [][(AllAnalyzed /\ (driver.pc = "loop" \/ driver'.pc = "loop"))
       => /\ analysisResults' = analysisResults
          /\ progress' = progress
          /\ driver'.totalProcessed
               = IF driver.pc = "loop" THEN driver.totalProcessed ELSE 0]_vars

\* an analysis run was started on a store in which the counted turns are all
\* analyzed, and its first analyzeBatch call found no batch
C19_Witness ==
  /\ CountedTurns # {}
  /\ AllAnalyzed
  /\ driver.pc = "off"
  /\ driver.totalProcessed = 0
  /\ IF driver.batch = None THEN FALSE ELSE driver.batch.outcome = "complete"

\* the directory of a turn after one analysis pass over the first count
\* states of the turn's list: every state is computed and all are saved by
\* one saveTurnResults call on a turn without files
OnePass(turn, count) ==
  saveTurnResults(
    NoResults[turn],
    ObjectEntries([k \in 1..count |->
                     [hash |-> ParseHex(ListOf(turn)[k]),
                      strategy |-> Computed(ParseHex(ListOf(turn)[k]))]]),
    driver.chunkSize)

StoreHashes ==
  UNION {{WholeList(turn)[k] : k \in 1..Len(WholeList(turn))} :
           turn \in StoreTurns}

\* what getStrategyForState(stateHash, turn) returns when it is called now
LookedUp(stateHash, turn) ==
  getStrategyForStateCached(storage.instance, stateHash, turn).strategy

\* C21: whatever the caller has done on the storage, a lookup of a state
\* under a turn returns the strategy last saved for the state under that
\* turn, in the rounded form in which it is stored, and it returns null when
\* the state was never saved under the turn or the turn was deleted after
\* the state was saved.
C21_LookupReturnsSaved ==
  \A turn \in StoreTurns : \A stateHash \in StoreHashes :
    LookedUp(stateHash, turn) =
      IF HexText(stateHash) \in DOMAIN storage.lastSaved[turn]
        THEN roundToPrecision(storage.lastSaved[turn][HexText(stateHash)])
        ELSE None

\* the last of the calls was a lookup that returned the strategy saved for
\* the state, while nothing is saved under the other turn and a
\* lookup of any state under it returns null
C21_Witness ==
  /\ storage.calls = MaxCalls
  /\ storage.call.op = "getStrategyForState"
  /\ storage.call.returned # None
  /\ storage.call.returned =
       roundToPrecision(storage.lastSaved[storage.call.turn]
                          [HexText(storage.call.stateHash)])
  /\ \E turn \in StoreTurns \ {storage.call.turn} :
       /\ storage.lastSaved[turn] = EmptyObject
       /\ \A stateHash \in StoreHashes : LookedUp(stateHash, turn) = None

\* C29: whatever the caller has done on the storage, its chunk cache holds
\* at most maxCacheSize chunks.
C29_CacheBounded == Len(storage.instance.chunkCache) <= maxCacheSize

\* C30: after the saves of a turn since its directory was created,
\* index.json counts in totalStates the distinct hex keys of hashToChunk,
\* these are the states saved, the k-th of them in the order of their first
\* save (counting from 0) is mapped to chunk floor(k / chunkSize) whatever
\* was saved again later, and the chunk file a key is mapped to holds the
\* key.
C30_IndexCountsAndChunks ==
  \A turn \in StoreTurns :
    LET index == analysisResults[turn].index
        chunks == analysisResults[turn].chunks
        saved == storage.firstSaved[turn]
    IN IF index = None THEN saved = <<>>
       ELSE /\ index.totalStates = Cardinality(DOMAIN index.hashToChunk)
            /\ DOMAIN index.hashToChunk = {saved[k] : k \in 1..Len(saved)}
            /\ index.totalStates = Len(saved)
            /\ \A k \in 1..Len(saved) :
                 /\ index.hashToChunk[saved[k]] =
                      (k - 1) \div storage.instance.chunkSize
                 /\ index.hashToChunk[saved[k]] \in DOMAIN chunks
                 /\ \E j \in 1..Len(chunks[index.hashToChunk[saved[k]]]
                                      .strategies) :
                      chunks[index.hashToChunk[saved[k]]].strategies[j].key
                        = saved[k]

\* the last call saved states of a turn of which one had been saved before,
\* the turn's whole list is saved and spread over more than one chunk
C30_Witness ==
  /\ storage.calls >= 2
  /\ storage.call.op = "saveTurnResults"
  /\ storage.call.range[1] = 0
  /\ Len(storage.firstSaved[storage.call.turn])
       = loadTurnMetadata(storage.call.turn).totalCount
  /\ analysisResults[storage.call.turn].index.totalChunks > 1
  /\ C30_IndexCountsAndChunks

\* ---------------------------------------------------------------------
\* Properties of the successor lookup and of the preload
\* ---------------------------------------------------------------------

\* the last analyzeBatch call of the process ended the process on
\* 'Strategy not found'
BatchAborted ==
  IF driver.batch = None THEN FALSE ELSE driver.batch.outcome = "exit"

\* C28: when the strategy of a turn-(t+1) state has been persisted, solving a
\* state of turn t finds it (in strategyCache or through the calculator's
\* own storage and its cached index): solving aborts with 'Strategy not
\* found' only when some in-progress successor of the batch has no
\* persisted strategy.
C28_PersistedSuccessorFound ==
  BatchAborted =>
    \E stateHash \in SolvedStates :
      \E successor \in Referenced(stateHash) :
        HexText(successor)
          \notin StoredKeys(decodeGameStateHash(successor).turn)

\* C27: when a batch of turn t has been solved, every strategy stored for
\* turn t + 1 is in loadedStrategies of the calculator under the number of
\* its own state.
C27_NextTurnLoaded ==
  BatchAnalyzed =>
    \A key \in StoredKeys(driver.batch.call.turn + 1) :
      key \in DOMAIN driver.calculator.loadedStrategies

\* ---------------------------------------------------------------------
\* Properties of the strategies a calculator computes
\* ---------------------------------------------------------------------
\* the state of the last call on the calculator
LastState == hashToGameState(calculation.last.stateHash)

\* the last call on the calculator returned a strategy for a finished game
TerminalSolved ==
  IF calculation.last = None THEN FALSE
  ELSE LastState.gameStatus # "IN_PROGRESS"

\* the last call on the calculator returned a strategy for a state in
\* progress
InProgressSolved ==
  IF calculation.last = None THEN FALSE
  ELSE ~calculation.last.thrown /\ LastState.gameStatus = "IN_PROGRESS"

\* the last call on the calculator built a payoff matrix and solved it
MatrixSolved ==
  InProgressSolved /\ calculation.last.from = "computed"

\* the draw value the process was configured with: --draw-value when it is
\* given, else evaluation.draw of the config file
ConfiguredDraw == EngineDraw(calculation.fileDraw, calculation.option)

\* C23: for a terminal state calculateOptimalStrategy returns two all-zero
\* vectors of length 12 and the value +1 when Player 1 wins, -1 when
\* Player 2 wins and the configured drawValue on a draw.
C23_TerminalStrategy ==
  TerminalSolved =>
    /\ calculation.last.strategy.player1Probabilities
         = [i \in 1..12 |-> Whole(0)]
    /\ calculation.last.strategy.player2Probabilities
         = [i \in 1..12 |-> Whole(0)]
    /\ LastState.gameStatus = "PLAYER1_WIN"
         => calculation.last.strategy.expectedValue = Whole(1)
    /\ LastState.gameStatus = "PLAYER2_WIN"
         => calculation.last.strategy.expectedValue = Whole(-1)
    /\ LastState.gameStatus = "DRAW"
         => calculation.last.strategy.expectedValue = ConfiguredDraw

\* a drawn game has been given to a calculator whose draw value is not 0
C23_Witness ==
  /\ TerminalSolved
  /\ LastState.gameStatus = "DRAW"
  /\ calculation.last.strategy.expectedValue = Fraction(1, 2)

\* the numbers of a vector are probabilities that sum to 1 within 1e-6 and
\* are 0 at the chairs that are not in the set
ProbabilityLaw(probabilities, chairs) ==
  /\ \A c \in 1..Len(probabilities) :
       /\ LessEq(Whole(0), probabilities[c])
       /\ LessEq(probabilities[c], Whole(1))
       /\ c \notin chairs => probabilities[c] = Whole(0)
  /\ LessEq(Minus(SumOf(probabilities), Whole(1)), Fraction(1, 10 ^ 6))
  /\ LessEq(Minus(Whole(1), SumOf(probabilities)), Fraction(1, 10 ^ 6))

\* C22: in every strategy returned for an in-progress state, each entry of
\* player1Probabilities and player2Probabilities is in [0, 1], each vector
\* sums to 1 within 1e-6, and every entry at the position of a removed
\* chair is 0.
C22_ProbabilityVectors ==
  InProgressSolved =>
    /\ ProbabilityLaw(calculation.last.strategy.player1Probabilities,
                      getAvailableChairs(LastState))
    /\ ProbabilityLaw(calculation.last.strategy.player2Probabilities,
                      getAvailableChairs(LastState))

\* a matrix has been solved for a state with two chairs left on which both
\* players mix
C22_Witness ==
  /\ MatrixSolved
  /\ getAvailableChairs(LastState) = {1, 2}
  /\ calculation.last.strategy.player1Probabilities[1] = Fraction(2, 3)
  /\ calculation.last.strategy.player2Probabilities[2] = Fraction(2, 3)

\* the numbers of a vector at the chairs of a list
AtChairs(probabilities, availableChairs) ==
  [i \in 1..Len(availableChairs) |-> probabilities[availableChairs[i]]]

\* the strategy that is stored for the state of the last call
LastStored == calculation.results[HexText(calculation.last.stateHash)]

\* C24: for a solved in-progress state, no chair of Player 1 earns more than
\* value + 5e-8 against Player 2's stored mixed strategy, and no chair of
\* Player 2 holds Player 1 below value - 5e-8 against Player 1's stored
\* mixed strategy.
C24_StoredBestResponse ==
  MatrixSolved =>
    verifyNashEquilibrium(
      calculation.last.payoffMatrix,
      AtChairs(LastStored.player1Probabilities,
               ChairList(getAvailableChairs(LastState))),
      AtChairs(LastStored.player2Probabilities,
               ChairList(getAvailableChairs(LastState))),
      LastStored.expectedValue).isValid

\* C24, amended: for a solved in-progress state, no chair of Player 1 earns
\* more than value + 5e-8 against Player 2's mixed strategy, and no chair of
\* Player 2 holds Player 1 below value - 5e-8 against Player 1's mixed
\* strategy, for the strategies and the value that calculateOptimalStrategy
\* returns.
C24_ReturnedBestResponse ==
  MatrixSolved =>
    verifyNashEquilibrium(
      calculation.last.payoffMatrix,
      AtChairs(calculation.last.strategy.player1Probabilities,
               ChairList(getAvailableChairs(LastState))),
      AtChairs(calculation.last.strategy.player2Probabilities,
               ChairList(getAvailableChairs(LastState))),
      calculation.last.strategy.expectedValue).isValid

\* a matrix has been solved whose stored strategy is not the returned one
C24_Witness ==
  /\ MatrixSolved
  /\ calculation.last.strategy.expectedValue = Fraction(-1, 3)
  /\ LastStored.expectedValue = Fraction(-333333, 10 ^ 6)

\* the state after processTurn where Player 1 chose chair1 and Player 2
\* chair2: on even turns Player 1 is the selector, on odd turns the setter
AfterChoices(state, chair1, chair2) ==
  IF state.currentTurn % 2 = 0
    THEN processTurn(state, chair1, chair2).newGameState
    ELSE processTurn(state, chair2, chair1).newGameState

\* the Player-1 value of an outcome with a draw value: +1, -1 or the draw
\* value for a finished game, else the value stored for the successor
ValueOf(outcome, draw) ==
  IF outcome.gameStatus # "IN_PROGRESS"
    THEN StatusValue(outcome.gameStatus, draw)
    ELSE calculation.results[HexText(encodeGameStateHash(outcome))]
           .expectedValue

\* C25: in the payoff matrix of an in-progress state the entry at row i,
\* column j is the Player-1 value of the outcome of processTurn where
\* Player 1 chose chair C[i] and Player 2 chair C[j] (selector and setter
\* by the parity of the turn): +1, -1 or drawValue for a terminal outcome
\* and the stored value of the successor otherwise.
C25_PayoffMatrixEntries ==
  MatrixSolved =>
    LET chairs == ChairList(getAvailableChairs(LastState))
    IN \A i \in 1..Len(chairs), j \in 1..Len(chairs) :
         calculation.last.payoffMatrix[i][j]
           = ValueOf(AfterChoices(LastState, chairs[i], chairs[j]),
                     ConfiguredDraw)

\* the entries are these values with the draw value of the config file
FileDrawMatrixEntries ==
  MatrixSolved =>
    LET chairs == ChairList(getAvailableChairs(LastState))
    IN \A i \in 1..Len(chairs), j \in 1..Len(chairs) :
         calculation.last.payoffMatrix[i][j]
           = ValueOf(AfterChoices(LastState, chairs[i], chairs[j]),
                     calculation.fileDraw)

\* C26: in a process run with --draw-value d every use of the draw value is
\* d: the value returned for a terminal draw state and every payoff-matrix
\* entry for a successor that is a draw.
C26_DrawValueOverride ==
  (calculation.option # None) =>
    /\ (TerminalSolved /\ LastState.gameStatus = "DRAW")
         => calculation.last.strategy.expectedValue = calculation.option
    /\ MatrixSolved =>
         LET chairs == ChairList(getAvailableChairs(LastState))
         IN \A i \in 1..Len(chairs), j \in 1..Len(chairs) :
              AfterChoices(LastState, chairs[i], chairs[j]).gameStatus
                  = "DRAW"
                => calculation.last.payoffMatrix[i][j] = calculation.option

\* ---------------------------------------------------------------------
\* Properties of the files the hash-generation script writes
\* ---------------------------------------------------------------------
\* the encodings of a turn's chunk files, chunk-0, chunk-1, ... one after
\* the other, as parseInt reads them
EncodingsOf(t) ==
  LET texts == Concat(stateHashes[t].chunks)
  IN [k \in 1..Len(texts) |-> ParseHex(texts[k])]

\* a list is strictly increasing by encoding value
StrictlyIncreasing(list) ==
  \A k \in 1..(Len(list) - 1) : Less(list[k], list[k + 1])

\* every chunk file of turn t except the last one holds chunkSize encodings,
\* and the last one at least one and at most chunkSize
FullChunks(t) ==
  LET chunks == stateHashes[t].chunks
  IN \A c \in 1..Len(chunks) :
       /\ chunks[c].count = Len(chunks[c].hashes)
       /\ IF c < Len(chunks)
            THEN Len(chunks[c].hashes) = enumerator.chunkSize
            ELSE Len(chunks[c].hashes) \in 1..enumerator.chunkSize

\* C31: in the files of every turn, the concatenation of chunk-0, chunk-1,
\* ... is strictly increasing by encoding value and every chunk except the
\* last holds exactly chunkSize encodings; once the turn's meta.json is
\* written, its totalCount and chunks are the number of encodings and of
\* chunk files.
C31_ChunksSortedAndCounted ==
  \A t \in 0..MAX_TURNS :
    /\ StrictlyIncreasing(EncodingsOf(t))
    /\ FullChunks(t)
    /\ stateHashes[t].meta # None =>
         /\ stateHashes[t].meta.totalCount = Len(EncodingsOf(t))
         /\ stateHashes[t].meta.chunks = Len(stateHashes[t].chunks)
         /\ stateHashes[t].meta.chunkSize = enumerator.chunkSize

\* the script has written a turn of several chunks whose last chunk is not
\* full, and the turn's meta.json
C31_Witness ==
  \E t \in enumerator.generated :
    /\ stateHashes[t].meta # None
    /\ Len(stateHashes[t].chunks) >= 3
    /\ stateHashes[t].chunks[Len(stateHashes[t].chunks)].count
         < enumerator.chunkSize

\* the chunk files the script writes for turn t from the files of the turn
\* before it
ChunksFrom(t) ==
  LET before == Concat(stateHashes[t - 1].chunks)
      hashArray == SortHashes(UNION {NextTurnHashesOf(before[k], t) :
                                       k \in 1..Len(before)})
  IN [c \in 1..TotalChunks(hashArray, enumerator.chunkSize) |->
        ChunkFile(t, c - 1, hashArray, enumerator.chunkSize)]

\* turn t has all its chunk files: as many as its meta.json counts, with as
\* many encodings
AllChunksWritten(t) ==
  /\ Len(stateHashes[t].chunks) = stateHashes[t].meta.chunks
  /\ Len(Concat(stateHashes[t].chunks)) = stateHashes[t].meta.totalCount

\* the loop has just gone past a turn that the script generated
JustGenerated ==
  /\ enumerator.pc = "loop"
  /\ enumerator.currentTurn \in enumerator.generated

\* a step in which the loop of main goes from one turn to the next
LoopAdvances == enumerator'.currentTurn = enumerator.currentTurn + 1

\* C32: in every state, also after the script was killed and started again,
\* a turn whose meta.json exists has all its chunks and every turn the loop
\* has left behind has its meta.json; no step changes the files of a turn
\* whose meta.json exists; the loop goes past a turn without writing only
\* when the turn's meta.json exists, and a turn without meta.json is
\* generated: its meta.json is written in the step that goes past it, and
\* its chunk files are then those of all successors of the turn before.
C32_MetaAfterChunks ==
  /\ [](\A t \in 0..MAX_TURNS :
          stateHashes[t].meta # None => AllChunksWritten(t))
  /\ [](JustGenerated =>
          stateHashes[enumerator.currentTurn].chunks
            = ChunksFrom(enumerator.currentTurn))
  /\ [](enumerator.pc \in {"loop", "read", "write", "done"} =>
          \A t \in 0..enumerator.currentTurn : stateHashes[t].meta # None)
  /\ [][\A t \in 0..MAX_TURNS :
          stateHashes[t].meta # None => stateHashes'[t] = stateHashes[t]]_vars
  /\ [][LoopAdvances =>
          IF stateHashes[enumerator'.currentTurn].meta # None
            THEN stateHashes' = stateHashes
            ELSE /\ stateHashes'[enumerator'.currentTurn].meta # None
                 /\ enumerator'.currentTurn \in enumerator'.generated]_vars

\* the script was killed while it wrote the chunks of a turn, after the
\* first and before the meta.json; started again, it has gone past the turns
\* before and has written that turn with its meta.json
C32_Witness ==
  /\ enumerator.kills > 0
  /\ enumerator.killedAt.pc = "write"
  /\ enumerator.killedAt.written > 0
  /\ enumerator.killedAt.currentTurn > 0
  /\ enumerator.currentTurn > enumerator.killedAt.currentTurn
  /\ stateHashes[enumerator.killedAt.currentTurn + 1].meta # None
  /\ Len(stateHashes[enumerator.killedAt.currentTurn + 1].chunks) >= 2

\* ---------------------------------------------------------------------
\* Properties of the game UI
\* ---------------------------------------------------------------------
\* the vector of a strategy that belongs to a player: buildPayoffMatrix
\* makes Player 1 the row player whoever attacks
VectorOf(strategy, playerNumber) ==
  IF playerNumber = PLAYER1
    THEN strategy.player1Probabilities
    ELSE strategy.player2Probabilities

\* a CPU turn waits with a chair that was sampled from a calculated strategy
Sampled ==
  IF app.pending = None THEN FALSE
  ELSE IF app.pending.awaiting # "setTimeout" THEN FALSE
  ELSE IF app.pending.strategy = None THEN FALSE
  ELSE app.pending.strategy.isCalculated

\* C33: a CPU that plays for player P samples the chair from P's own
\* probability vector of the stored strategy, as chair-selector and as
\* electric-setter, on even and on odd turns.
C33_CpuSamplesOwnVector ==
  Sampled =>
    app.pending.probabilities =
      VectorOf(app.pending.strategy, app.pending.currentPlayer)

\* the fields of the App that make up the game on the screen
Shown(current) ==
  <<current.gameState, current.gamePhase, current.defenderChoice,
    current.attackerChoice, current.gameHistory>>

\* a step that ends a CPU turn which was started before a reset
StaleTurnEnds ==
  /\ app.pending # None
  /\ app.pending.beforeReset
  /\ app.pending.awaiting = "setTimeout"
  /\ app'.pending # app.pending

\* C39: a CPU choice that was in flight when resetGame ran is never applied
\* to the game after the reset: the step that ends such a CPU turn leaves
\* the game state, the phase and the choices as they are.
C39_StaleCpuChoiceDropped ==
  [][StaleTurnEnds => Shown(app') = Shown(app)]_vars

\* ---------------------------------------------------------------------
\* Properties of an analysis that is killed and resumed
\* ---------------------------------------------------------------------
\* a process that starts now finds a strategy of the state in the store
InStore(turn, stateHash) ==
  getStrategyForState(analysisResults[turn].index,
                      analysisResults[turn].chunks, stateHash) # None

\* the states of a turn that progress.json counts as analyzed: the leading
\* positions of the list
CountedStates(turn) ==
  loadTurnHashRange(turn, 0, loadProgress.analyzedStates[turn])

\* no key twice in a chunk file, no chunk file with a wrong count, and an
\* index that counts its encodings once
NothingDuplicated(turnDirectory) ==
  /\ \A c \in DOMAIN turnDirectory.chunks :
       LET strategies == turnDirectory.chunks[c].strategies
       IN /\ \A j, k \in 1..Len(strategies) :
               strategies[j].key = strategies[k].key => j = k
          /\ turnDirectory.chunks[c].count = Len(strategies)
  /\ turnDirectory.index # None =>
       turnDirectory.index.totalStates
         = Cardinality(DOMAIN turnDirectory.index.hashToChunk)

\* C34: with the process killed at any point of analyzeBatch, every state
\* among the analyzedStates leading positions of a turn's list that
\* progress.json counts has its strategy in the store, so that a resumed run
\* skips no unsolved state, and saving the encodings of the killed batch
\* again leaves every encoding once in its chunk file and in the index.
C34_ProgressWithinStore ==
  \A turn \in DOMAIN loadProgress.analyzedStates :
    /\ Len(CountedStates(turn)) = loadProgress.analyzedStates[turn]
    /\ \A k \in 1..Len(CountedStates(turn)) :
         InStore(turn, CountedStates(turn)[k])
    /\ NothingDuplicated(analysisResults[turn])

\* a run was killed after it had written chunk files, and the resumed run
\* has saved a part of the killed batch again: a chunk file of the turn
\* holds more strategies than the index counts for it
C34_Witness ==
  /\ driver.kills > 0
  /\ driver.batch # None
  /\ driver.batch.outcome = "analyzed"
  /\ LET turnDirectory == analysisResults[driver.batch.call.turn]
     IN /\ turnDirectory.index # None
        /\ \E c \in DOMAIN turnDirectory.chunks :
             Len(turnDirectory.chunks[c].strategies)
               > Cardinality({h \in DOMAIN turnDirectory.index.hashToChunk :
                                turnDirectory.index.hashToChunk[h] = c})

\* ---------------------------------------------------------------------
\* Properties of a batch that fails
\* ---------------------------------------------------------------------
\* a pass of the loop of main that found states to analyze
BatchStep ==
  /\ driver.pc = "loop"
  /\ driver'.batchCount = driver.batchCount + 1
  /\ driver'.batch # None
  /\ driver'.batch.outcome \in {"exit", "analyzed"}

\* a state of the batch has a successor in progress for which the store
\* holds no strategy
SuccessorMissing(statesToAnalyze) ==
  \E k \in 1..Len(statesToAnalyze) :
    \E o \in Referenced(statesToAnalyze[k]) :
      ~InStore(decodeGameStateHash(o).turn, o)

\* C35: a batch with a state that cannot be solved, because the strategy of
\* one of its successors is missing in the store, ends the process, and a
\* batch that ends the process saves nothing, whatever made it fail: the
\* strategy store and progress.json are after the batch what they were
\* before it.
C35_FailedBatchSavesNothing ==
  [][BatchStep =>
       /\ SuccessorMissing(driver'.batch.call.statesToAnalyze)
            => driver'.batch.outcome = "exit"
       /\ driver'.batch.outcome = "exit"
            => /\ driver'.pc = "off"
               /\ progress' = progress
               /\ analysisResults' = analysisResults]_vars

\* the process has exited in a batch of several states with a successor
\* that has no stored strategy
C35_Witness ==
  /\ driver.batch # None
  /\ driver.batch.outcome = "exit"
  /\ Len(driver.batch.call.statesToAnalyze) >= 2
  /\ SuccessorMissing(driver.batch.call.statesToAnalyze)

\* ---------------------------------------------------------------------
\* Properties of the length of a game
\* ---------------------------------------------------------------------
\* the processTurn calls that made a state: every call removes a chair or
\* gives a shock
CallsMade(gs) ==
  (CHAIR_COUNT - RemainingChairs(gs.chairsRemaining))
    + gs.player1ElectricCount + gs.player2ElectricCount

\* C36: a game of legal processTurn calls from the initial state is over
\* after at most 15 calls. The turn of a state in progress is the number of
\* chairs removed plus the shocks of both players and at most 14; the call
\* that ends a game leaves the turn as it is; no state has turn 15, and
\* checkGameEnd never sees a turn of MAX_TURNS - 1 or more.
C36_GameEndsWithinFifteenCalls ==
  /\ gameState.currentTurn <= MAX_TURNS - 2
  /\ IF gameState.gameStatus = "IN_PROGRESS"
       THEN gameState.currentTurn = CallsMade(gameState)
       ELSE gameState.currentTurn + 1 = CallsMade(gameState)
  /\ CallsMade(gameState) <= MAX_TURNS - 1

\* a game is in progress on turn 14, and a game has ended with its
\* fifteenth call
C36_Witness ==
  /\ gameState.gameStatus # "IN_PROGRESS"
  /\ CallsMade(gameState) = MAX_TURNS - 1
  /\ args # None
  /\ args.gameState.gameStatus = "IN_PROGRESS"
  /\ args.gameState.currentTurn = MAX_TURNS - 2

\* ---------------------------------------------------------------------
\* Properties of the status of a decoded state
\* ---------------------------------------------------------------------
\* the last processTurn call was made on a state in progress with chairs of
\* that state
LegalCallMade ==
  IF args = None \/ result = None THEN FALSE
  ELSE /\ args.gameState.gameStatus = "IN_PROGRESS"
       /\ Legal(args.gameState, args.attackerChoice, args.defenderChoice)

\* C37: the status processTurn gives the new state of a legal call on a
\* state in progress, computed before the turn is incremented, is the
\* status hashToGameState gives the encoding of that new state: a successor
\* is finished for getSuccessorStates exactly if it is finished for
\* calculateOptimalStrategy.
C37_StatusSurvivesEncoding ==
  LegalCallMade =>
    hashToGameState(encodeGameStateHash(result.newGameState)).gameStatus
      = result.newGameState.gameStatus

\* a legal call has given a state in progress on turn 14, the last turn
\* whose decoded status is in progress
C37_Witness ==
  /\ LegalCallMade
  /\ result.newGameState.gameStatus = "IN_PROGRESS"
  /\ result.newGameState.currentTurn = MAX_TURNS - 2

\* ---------------------------------------------------------------------
\* Properties of an encoding that is read back from a file
\* ---------------------------------------------------------------------
\* the number a reader of a reachability or strategy file gets for a state:
\* parseInt(text, 16) of the text (hash >>> 0).toString(16) in the file
ReadBack(state) == ParseHex(HexText(encodeGameStateHash(state)))

\* C38: the number encodeGameStateHash returns for a state of a game is the
\* number that is read back from the hex text of that state in a file, for
\* the states of turn 8 and more as well, so that a map with the one as
\* its key is hit by a lookup with the other.
C38_EncodingReadBackEqual ==
  ReadBack(gameState) = encodeGameStateHash(gameState)
====
